---------------------------- MODULE Spec2Model ----------------------------
(***************************************************************************)
(* A model of check-pr (apoelstra/rsgit): the scheduler of real_main, the  *)
(* per-check executor RustCheck::execute, the per-toolchain jobs started   *)
(* through JobHandle::spawn, the single cargo invocations of               *)
(* SingleCheck::run and the cache of job descriptors read from git notes.  *)
(*                                                                         *)
(* Strings are sequences of tokens: a token is a name supplied by the user *)
(* (a toolchain version, a feature, a target) or a literal piece of a      *)
(* format string.  Results of calls into git2, cargo and the filesystem    *)
(* are choices of the environment.                                         *)
(***************************************************************************)
EXTENDS Integers, Sequences, FiniteSets, TLC

(***************************************************************************)
(* Bounds of the model.                                                    *)
(***************************************************************************)
MaxCommits == 2      \* commits in the PR's commit set
MaxVersions == 2     \* toolchain versions a check names
MaxFeatures == 2     \* features a check declares
MaxHandles == 2      \* per-toolchain jobs of one run, over all its tasks
MaxJobs == 4         \* ConcreteJobs of one run, over all its tasks
MaxRuns == 2         \* invocations of the program on the same repository
MaxPr == 2           \* commits of a PR that is a line of commits
MaxGlobal == 2       \* threads of the global pool, on a small machine
MaxBuild == 2        \* threads of build_pool, when it is built small
MaxIters == 2        \* iterations a fuzz job is given
MaxStderr == 3       \* bytes a subprocess writes to its error stream

(***************************************************************************)
(* Check descriptors (checks/rust.rs).                                     *)
(***************************************************************************)
default_fuzz_iters == 100000

Build == [kind |-> "build", iters |-> 0]
Test == [kind |-> "test", iters |-> 0]
Examples == [kind |-> "examples", iters |-> 0]
Fuzz(n) == [kind |-> "fuzz", iters |-> n]

default_rust_jobs == <<Build, Test, Examples>>

\* default_versions with a second toolchain.
default_versions_Two == <<"stable", "nightly">>

default_versions == <<"stable">>

\* The names the inputs are drawn from.
VersionNames == <<"stable", "nightly", "beta">>
FeatureNames == <<"a", "b", "c">>
CommitNames == <<"c1", "c2", "c3">>

RustCheck(features, version, jobs) ==
    [features |-> features, version |-> version, jobs |-> jobs,
     only_tip |-> FALSE]

\* The check with only-tip set.
OnlyTip(check) == [check EXCEPT !.only_tip = TRUE]

\* versions of RustCheck::execute: the default when none is given.
Versions(check) ==
    IF check.version = <<>> THEN default_versions ELSE check.version

\* FeatureMatrix without the full declared list.
FeatureMatrix_NoFull(check) ==
    <<<<>>>> \o [i \in 1..Len(check.features) |-> <<check.features[i]>>]

\* feature_matrix of RustCheck::execute: the empty set, the full declared
\* list when there is one, then every declared feature alone.
FeatureMatrix(check) ==
    <<<<>>>>
      \o (IF check.features # <<>> THEN <<check.features>> ELSE <<>>)
      \o [i \in 1..Len(check.features) |-> <<check.features[i]>>]

\* [String]::join
RECURSIVE Join(_, _)
Join(ext, sep) ==
    IF ext = <<>> THEN <<>>
    ELSE IF Len(ext) = 1 THEN <<ext[1]>>
    ELSE <<ext[1], sep>> \o Join(Tail(ext), sep)

\* SingleCheck::notes_str: the canonical descriptor of a ConcreteJob.
notes_str(cargo_ver, job, ext) ==
    CASE job.kind = "build" ->
           <<cargo_ver, " cargo build '--features=">> \o Join(ext, " ") \o <<"'">>
      [] job.kind = "test" ->
           <<cargo_ver, " cargo test '--features=">> \o Join(ext, " ") \o <<"'">>
      [] job.kind = "examples" ->
           <<cargo_ver, " cargo run '--example ", ext[1], "'">>
      [] job.kind = "fuzz" ->
           <<cargo_ver, " cargo hfuzz run ", ext[1], " # iters ",
             ToString(job.iters)>>

(***************************************************************************)
(* The note of a commit under refs/notes/check-commit.                     *)
(***************************************************************************)
NoNote == <<"<no note>">>

\* A note text holding the given lines, separated by newlines.
RECURSIVE NoteText(_)
NoteText(lines) ==
    IF lines = <<>> THEN <<>>
    ELSE IF Len(lines) = 1 THEN lines[1]
    ELSE lines[1] \o <<"\n">> \o NoteText(Tail(lines))

\* str::split('\n'): the pieces between the newlines, empty pieces kept.
RECURSIVE SplitLines(_, _)
SplitLines(text, cur) ==
    IF text = <<>> THEN <<cur>>
    ELSE IF Head(text) = "\n" THEN <<cur>> \o SplitLines(Tail(text), <<>>)
    ELSE SplitLines(Tail(text), Append(cur, Head(text)))

\* existing_notes of RustCheck::execute: no note reads as no line.
ExistingNotes(note) ==
    IF note = NoNote THEN <<>> ELSE SplitLines(note, <<>>)

\* AlreadyDone with a note that begins the descriptor taken for it.
AlreadyDone_Prefix(my_note, existing_notes) ==
    \E n \in 1..Len(existing_notes) :
        /\ Len(existing_notes[n]) <= Len(my_note)
        /\ SubSeq(my_note, 1, Len(existing_notes[n])) = existing_notes[n]

\* The loop at the head of SingleCheck::run: the job is already done.
AlreadyDone(my_note, existing_notes) ==
    \E n \in 1..Len(existing_notes) : existing_notes[n] = my_note


(***************************************************************************)
(* The inputs of a run.                                                    *)
(***************************************************************************)
\* Cargo.toml of the project (cargo.rs, CargoToml): its targets.
Toml == [example |-> <<"ex1">>, bin |-> <<"fz1", "fz2">>]

\* No version given, or several.
VersionLists == {<<>>} \cup {SubSeq(VersionNames, 1, n) : n \in 2..MaxVersions}
FeatureLists == {SubSeq(FeatureNames, 1, n) : n \in 0..MaxFeatures}
JobLists ==
    {<<Build>>, <<Build, Test>>, default_rust_jobs, <<Fuzz(default_fuzz_iters)>>}

Checks ==
    {RustCheck(f, v, j) : f \in FeatureLists, v \in VersionLists, j \in JobLists}

CheckLists ==
    {<<c>> : c \in Checks}
      \cup {<<RustCheck(<<>>, <<>>, <<Build>>), RustCheck(<<>>, <<>>, <<Test>>)>>}

\* Exts with the feature matrix applied to every kind of job.
Exts_MatrixEverywhere(check, k) == FeatureMatrix(check)

\* The ext lists job number k of a check gives rise to: the feature matrix
\* for build and test, one target each for examples and fuzz.
Exts(check, k) ==
    LET job == check.jobs[k] IN
    CASE job.kind \in {"build", "test"} -> FeatureMatrix(check)
      [] job.kind = "examples" ->
           [i \in 1..Len(Toml.example) |-> <<Toml.example[i]>>]
      [] job.kind = "fuzz" -> [i \in 1..Len(Toml.bin) |-> <<Toml.bin[i]>>]

\* The ConcreteJobs of one toolchain version: <<k, i>> is ext number i of
\* job number k.
Items(check) ==
    UNION {{<<k, i>> : i \in 1..Len(Exts(check, k))} : k \in 1..Len(check.jobs)}

RECURSIVE SumOver(_, _)
SumOver(f, n) == IF n = 0 THEN 0 ELSE f[n] + SumOver(f, n - 1)

NJobs(check) ==
    Len(Versions(check)) * Cardinality(Items(check))

NHandlesOfList(checks) ==
    SumOver([c \in 1..Len(checks) |-> Len(Versions(checks[c]))], Len(checks))

NJobsOfList(checks) ==
    SumOver([c \in 1..Len(checks) |-> NJobs(checks[c])], Len(checks))

\* The lines earlier runs may have left in a commit's note.
LineBuild == notes_str("stable", Build, <<>>)
LineNearMiss == <<"stable", " cargo build '--features=">>

\* No note, or one with a line that is no descriptor, the descriptor of
\* the default build and a newline at its end.
NoteChoices == {NoNote, NoteText(<<LineNearMiss, LineBuild, <<>>>>)}

(***************************************************************************)
(* The repositories real_main is run on: commits with their parents and    *)
(* their trees, a tree being the set of the changes it contains.           *)
(***************************************************************************)
Range(seq) == {seq[n] : n \in DOMAIN seq}

PrNames == <<"p1", "p2", "p3", "p4">>
PatchNames == <<"x1", "x2", "x3", "x4">>

Repository(parents, tree, master, tip) ==
    [parents |-> parents, tree |-> tree, master |-> master, tip |-> tip]

\* master is m1 <- m2; the PR is n commits in a line on top of fork, commit
\* number i adding change number i; upstream says that master got the
\* first change of the PR on its own, in m2.
LinearRepo(n, fork, upstream) ==
    LET prs == {PrNames[i] : i \in 1..n}
        num(c) == CHOOSE i \in 1..n : PrNames[i] = c
        base == [m1 |-> {"f0"},
                 m2 |-> {"f0", "g0"} \cup (IF upstream THEN {"x1"} ELSE {})]
    IN  Repository(
            [c \in {"m1", "m2"} \cup prs |->
                CASE c = "m1" -> <<>>
                  [] c = "m2" -> <<"m1">>
                  [] c = PrNames[1] -> <<fork>>
                  [] OTHER -> <<PrNames[num(c) - 1]>>],
            [c \in {"m1", "m2"} \cup prs |->
                IF c \in prs
                THEN base[fork] \cup {PatchNames[i] : i \in 1..num(c)}
                ELSE base[c]],
            "m2",
            IF n = 0 THEN fork ELSE PrNames[n])

\* master is m1 <- m2, m2 merging the side branch s1: the repository after
\* a PR of one commit was merged.
MergedRepo(tip) ==
    Repository(
        [m1 |-> <<>>, s1 |-> <<"m1">>, m2 |-> <<"m1", "s1">>],
        [m1 |-> {"f0"}, s1 |-> {"f0", "x1"}, m2 |-> {"f0", "x1"}],
        "m2", tip)

\* The PR is p1 <- p2 on top of fork, p2 merging the side branch s1.
MergeInPrRepo(fork) ==
    Repository(
        [m1 |-> <<>>, m2 |-> <<"m1">>, p1 |-> <<fork>>, s1 |-> <<fork>>,
         p2 |-> <<"p1", "s1">>],
        [m1 |-> {"f0"}, m2 |-> {"f0", "g0"}, p1 |-> {"f0", "x1"},
         s1 |-> {"f0", "x2"}, p2 |-> {"f0", "x1", "x2"}],
        "m2", "p2")

\* The PR of the end-to-end example: three commits in a line ahead of base.
ThreeAhead == {LinearRepo(3, fork, FALSE) : fork \in {"m1", "m2"}}

Repos ==
    {LinearRepo(n, fork, up) : n \in 0..MaxPr, fork \in {"m1", "m2"},
                               up \in {FALSE}}
      \cup {LinearRepo(n, "m1", TRUE) : n \in 1..MaxPr}
      \cup {MergedRepo(tip) : tip \in {"s1", "m2"}}
      \cup {MergeInPrRepo(fork) : fork \in {"m1", "m2"}}
      \cup ThreeAhead

\* The check lists of the runs that resolve a PR.
ResolveCheckLists ==
    {<<RustCheck(<<>>, <<>>, <<Build, Test>>)>>,
     <<RustCheck(<<>>, <<>>, <<Build>>), RustCheck(<<>>, <<>>, <<Test>>)>>}

(***************************************************************************)
(* The state of the program.                                               *)
(***************************************************************************)
VARIABLES
    repo,               \* the repository real_main opens
    allow_merges,       \* opts.allow_merges
    master_id,          \* id of the commit opts.master names
    pr_id,              \* id of the commit opts.tip names
    parent_commits,     \* first-parent history of master
    pr_linear_commits,  \* first-parent history of the PR, oldest first
    has_merges,         \* a commit of pr_linear_commits has several parents
    needs_rebase,       \* the PR does not start at the tip of master
    pr_commit_set,      \* the commits to check
    worktree,           \* the temporary worktree of the rebase
    picked,             \* the commits made in the worktree, oldest first
    pickIdx,            \* the next pr_linear_commits entry to cherry-pick
    run,          \* number of this invocation of the program
    prev,         \* how the previous invocation ended
    commits,      \* pr_commit_set of real_main, in its iteration order
    check_list,   \* check_list of main
    notes,        \* the repository's notes under refs/notes/check-commit
    mainPc,       \* where real_main is
    spawnIdx,     \* the next (commit, check) pair of the spawn loop
    collectIdx,   \* the next exec_threads entry of the collecting loop
    result,       \* result of real_main
    printed,      \* the tasks whose outcome was shown to the operator
    exit,         \* how the process ended, "running" until then
    task,         \* the (commit, check) tasks, in the order of exec_threads
    global_pool,  \* number of threads of rayon's global pool
    build_pool,   \* number of threads of build_pool
    call          \* a function of the program called on its own: what it
                  \* is given and what it returns

\* What steps 0 to 4 of real_main work on.
resolution ==
    <<repo, allow_merges, master_id, pr_id, parent_commits, pr_linear_commits,
      has_merges, needs_rebase, pr_commit_set, worktree, picked, pickIdx>>

vars ==
    <<resolution, run, prev, commits, check_list, notes, mainPc, spawnIdx,
      collectIdx, result, printed, exit, task, global_pool, build_pool,
      call>>

\* The (commit, check) pairs in the order of the loops of real_main step 5.
NTasks == Len(commits) * Len(check_list)
TaskIds == 1..NTasks
TaskCommit(t) == commits[((t - 1) \div Len(check_list)) + 1]
TaskCheck(t) == check_list[((t - 1) % Len(check_list)) + 1]

\* anyhow::Result values: of real_main, and of RustCheck::execute.
MainOk == [ok |-> TRUE, kind |-> "none", at |-> 0]
MainErr(kind, t) == [ok |-> FALSE, kind |-> kind, at |-> t]
ExecOk(ns) == [ok |-> TRUE, kind |-> "none", at |-> 0, notes |-> ns]
ExecErr(kind, v) == [ok |-> FALSE, kind |-> kind, at |-> v, notes |-> {}]

InitTask ==
    [pc |-> "unspawned", existing |-> <<>>, handles |-> <<>>, joinIdx |-> 1,
     result |-> ExecOk({})]

\* JobHandle::spawn: the handle of a job just handed to the pool.
NewHandle(check) ==
    [pc |-> "start", k |-> 1, item |-> [ki \in Items(check) |-> "pending"],
     f |-> "none", res |-> "none", joined |-> FALSE, dropped |-> FALSE,
     warned |-> FALSE, new_notes |-> {}]

Scenario(cs, cl, note) == [commits |-> cs, check_list |-> cl, note |-> note]

\* A check with a feature and two job kinds, on one commit; a check of the
\* tip only, on two commits; a check with a feature that runs the examples
\* and the fuzz targets.
FixedScenarios ==
    {Scenario(<<CommitNames[1]>>, <<RustCheck(<<"a">>, <<>>, <<Build, Test>>)>>,
              NoNote),
     Scenario(SubSeq(CommitNames, 1, 2),
              <<OnlyTip(RustCheck(<<>>, <<>>, <<Build>>))>>, NoNote),
     Scenario(<<CommitNames[1]>>,
              <<RustCheck(<<"a">>, <<>>, <<Examples, Fuzz(default_fuzz_iters)>>)>>,
              NoNote)}

Scenarios ==
    FixedScenarios \cup
    {s \in [commits : {SubSeq(CommitNames, 1, n) : n \in 1..MaxCommits},
            check_list : CheckLists,
            note : NoteChoices] :
        /\ Len(s.commits) * NHandlesOfList(s.check_list) <= MaxHandles
        /\ Len(s.commits) * NJobsOfList(s.check_list) <= MaxJobs}

\* The inputs of the runs that are repeated: two commits, build and test.
RerunScenarios ==
    {Scenario(SubSeq(CommitNames, 1, 2),
              <<RustCheck(<<>>, <<>>, <<Build, Test>>)>>, note) :
        note \in NoteChoices}

\* The state real_main's step 5 begins in.
StartOfRun(pc, si, ci, res, pr, ex, tk) ==
    /\ pc = "spawn"
    /\ si = 1
    /\ ci = 1
    /\ res = MainOk
    /\ pr = {}
    /\ ex = "running"
    /\ tk = [t \in TaskIds |-> InitTask]

\* A repository whose PR is the commits cs in a line on the tip of master.
ChainRepo(cs) ==
    Repository(
        [c \in {"base"} \cup Range(cs) |->
            IF c = "base" THEN <<>>
            ELSE IF c = cs[1] THEN <<"base">>
            ELSE <<cs[(CHOOSE i \in DOMAIN cs : cs[i] = c) - 1]>>],
        [c \in {"base"} \cup Range(cs) |->
            IF c = "base" THEN {"f0"}
            ELSE {"f0"} \cup {PatchNames[i] : i \in 1..(CHOOSE i \in DOMAIN cs : cs[i] = c)}],
        "base", cs[Len(cs)])

\* What steps 0 to 4 leave for such a repository.
Resolved(cs) ==
    /\ repo = ChainRepo(cs)
    /\ allow_merges = FALSE
    /\ master_id = "base"
    /\ pr_id = cs[Len(cs)]
    /\ parent_commits = {"base"}
    /\ pr_linear_commits = cs
    /\ has_merges = FALSE
    /\ needs_rebase = FALSE
    /\ pr_commit_set = Range(cs)
    /\ worktree = "none"
    /\ picked = <<>>
    /\ pickIdx = 1

InitOf(scenarios) ==
    /\ run = 1
    /\ prev = "none"
    /\ \E s \in scenarios :
         /\ Resolved(s.commits)
         /\ commits = s.commits
         /\ check_list = s.check_list
         /\ notes = [c \in {s.commits[n] : n \in 1..Len(s.commits)} |->
                       IF c = s.commits[1] THEN s.note ELSE NoNote]
    /\ StartOfRun(mainPc, spawnIdx, collectIdx, result, printed, exit, task)

\* main: the number of threads build_pool is built with.
num_threads == 32

\* No function is called on its own.
NoCall == [fn |-> "none"]

\* The state real_main's step 5 begins in, on a machine with a CPU for
\* real_main and one for every task: the global pool of rayon has a thread
\* for every CPU.
Init ==
    /\ InitOf(Scenarios)
    /\ global_pool = NTasks + 1
    /\ build_pool = num_threads
    /\ call = NoCall

InitRerun ==
    /\ InitOf(RerunScenarios)
    /\ global_pool = NTasks + 1
    /\ build_pool = num_threads
    /\ call = NoCall

\* The state real_main's step 5 begins in on a machine with few CPUs, and
\* with a build_pool of few threads: the fixed inputs, and a build and test
\* of a commit that may have a note.
InitPool ==
    /\ InitOf(FixedScenarios \cup
              {Scenario(<<CommitNames[1]>>,
                        <<RustCheck(<<>>, <<>>, <<Build, Test>>)>>, note) :
                   note \in NoteChoices})
    /\ global_pool \in 1..MaxGlobal
    /\ build_pool \in 1..MaxBuild
    /\ call = NoCall

\* The state real_main begins in.
InitResolve ==
    /\ run = 1
    /\ prev = "none"
    /\ repo \in Repos
    /\ allow_merges \in BOOLEAN
    /\ check_list \in ResolveCheckLists
    /\ master_id = "none"
    /\ pr_id = "none"
    /\ parent_commits = {}
    /\ pr_linear_commits = <<>>
    /\ has_merges = FALSE
    /\ needs_rebase = TRUE
    /\ pr_commit_set = {}
    /\ worktree = "none"
    /\ picked = <<>>
    /\ pickIdx = 1
    /\ commits = <<>>
    /\ notes = [c \in DOMAIN repo.parents |-> NoNote]
    /\ mainPc = "open"
    /\ spawnIdx = 1
    /\ collectIdx = 1
    /\ result = MainOk
    /\ printed = {}
    /\ exit = "running"
    /\ task = <<>>
    /\ global_pool = 1
    /\ build_pool = num_threads
    /\ call = NoCall

(***************************************************************************)
(* real_main, steps 0 to 4: which commits to check (check-pr.rs, pr.rs).   *)
(***************************************************************************)
RECURSIVE FirstParents_AllParents(_, _)
\* FirstParents with every parent followed.
FirstParents_AllParents(r, c) ==
    {c} \cup UNION {FirstParents_AllParents(r, r.parents[c][i]) :
                       i \in DOMAIN r.parents[c]}

RECURSIVE FirstParents(_, _)
\* The loop of step 1: commit c and the commits parent(0) leads to from it.
FirstParents(r, c) ==
    {c} \cup (IF r.parents[c] = <<>> THEN {}
              ELSE FirstParents(r, r.parents[c][1]))

RECURSIVE PrWalk_StopsAtMaster(_, _, _, _)
\* PrWalk stopping at the tip of master only.
PrWalk_StopsAtMaster(r, c, ancestors, master) ==
    IF c = master
    THEN [linear |-> <<>>, has_merges |-> FALSE, needs_rebase |-> FALSE]
    ELSE LET rest == IF r.parents[c] = <<>>
                     THEN [linear |-> <<>>, has_merges |-> FALSE,
                           needs_rebase |-> TRUE]
                     ELSE PrWalk_StopsAtMaster(r, r.parents[c][1], ancestors,
                                               master)
         IN  [linear |-> Append(rest.linear, c),
              has_merges |-> rest.has_merges \/ Len(r.parents[c]) > 1,
              needs_rebase |-> rest.needs_rebase]

RECURSIVE PrWalk(_, _, _, _)
\* The loop of step 2, from commit c on: it stops at a commit of ancestors,
\* the PR needing no rebase when that commit is master, or at a commit
\* without parent; what it pushed is reversed afterwards.
PrWalk(r, c, ancestors, master) ==
    IF c \in ancestors
    THEN [linear |-> <<>>, has_merges |-> FALSE, needs_rebase |-> c # master]
    ELSE LET rest == IF r.parents[c] = <<>>
                     THEN [linear |-> <<>>, has_merges |-> FALSE,
                           needs_rebase |-> TRUE]
                     ELSE PrWalk(r, r.parents[c][1], ancestors, master)
         IN  [linear |-> Append(rest.linear, c),
              has_merges |-> rest.has_merges \/ Len(r.parents[c]) > 1,
              needs_rebase |-> rest.needs_rebase]

RECURSIVE WalkStack(_, _, _, _)
RECURSIVE WalkTips(_, _, _, _, _, _)
\* The for loop of for_each_commit over one batch of tips, from tip number
\* i on: pr_map lists the commits seen, in the order of their index.
WalkTips(r, master_commits, tips, i, stack, pr_map) ==
    IF i > Len(tips) THEN WalkStack(r, master_commits, stack, pr_map)
    ELSE IF tips[i] \in Range(pr_map)
    THEN WalkTips(r, master_commits, tips, i + 1, stack, pr_map)
    ELSE LET parent_vec == SelectSeq(r.parents[tips[i]],
                                     LAMBDA c : c \notin master_commits)
         IN  WalkTips(r, master_commits, tips, i + 1,
                      IF parent_vec # <<>> THEN Append(stack, parent_vec)
                      ELSE stack,
                      Append(pr_map, tips[i]))

\* The while loop of for_each_commit: the last batch pushed is popped.
WalkStack(r, master_commits, stack, pr_map) ==
    IF stack = <<>> THEN pr_map
    ELSE WalkTips(r, master_commits, stack[Len(stack)], 1,
                  SubSeq(stack, 1, Len(stack) - 1), pr_map)

\* PullRequest::for_each_commit: the commits the action is called on.
for_each_commit(r, id, master_commits) ==
    WalkStack(r, master_commits, <<<<id>>>>, <<>>)

\* The changes a commit makes to the tree of its first parent.
Diff(r, c) ==
    r.tree[c] \ (IF r.parents[c] = <<>> THEN {} ELSE r.tree[r.parents[c][1]])

\* HEAD of the rebase worktree, and its tree.
WtHead == IF picked = <<>> THEN master_id ELSE picked[Len(picked)].id
WtTree == IF picked = <<>> THEN repo.tree[master_id]
          ELSE picked[Len(picked)].tree

\* The id of a commit is the hash of its content: of its parent and, through
\* the message and the tree, of the commit it was cherry-picked from.
CommitId(from, parent) == "cp(" \o from \o "," \o parent \o ")"

\* commit.author() and commit.committer(): the signatures a commit of the
\* repository carries.
Signature(role, c) == role \o " of " \o c

\* CherryPicked with every commit made on top of master.
CherryPicked_OntoMaster(c) ==
    [id |-> CommitId(c, master_id), parents |-> <<master_id>>, from |-> c,
     author |-> Signature("author", c),
     committer |-> Signature("committer", c),
     tree |-> repo.tree[master_id] \cup Diff(repo, c)]

\* wt_repo.cherrypick, write_tree and commit: the commit made from commit c
\* on top of HEAD, with HEAD as its only parent and the signatures of c.
CherryPicked(c) ==
    [id |-> CommitId(c, WtHead), parents |-> <<WtHead>>, from |-> c,
     author |-> Signature("author", c),
     committer |-> Signature("committer", c),
     tree |-> WtTree \cup Diff(repo, c)]

\* The calls of steps 0 to 4 whose error real_main returns with ?.
FailPoints ==
    CASE mainPc = "open" -> {"open"}
      [] mainPc = "ancestors" -> {"master_ref", "master_commit"}
      [] mainPc = "prwalk" -> {"tip_ref", "tip_commit"}
      [] mainPc = "rebase" /\ needs_rebase /\ ~has_merges ->
           {"worktree_new", "worktree_repo", "set_head", "checkout"}
      [] mainPc = "pick" /\ pickIdx <= Len(pr_linear_commits) ->
           {"head", "find_commit", "cherrypick", "index", "write_tree",
            "find_tree", "commit", "new_head"}
      [] OTHER -> {}

\* MainResolveFail with a failed cherry-pick left out of the rebase instead
\* of ending the run.
MainResolveFail_GoesOn ==
    /\ exit = "running"
    /\ \E at \in FailPoints :
         /\ result' = MainErr(at, 0)
         /\ worktree' =
              IF mainPc = "pick" \/ at \in {"worktree_repo", "set_head", "checkout"}
              THEN "pruned" ELSE worktree
         /\ picked' = picked
    /\ mainPc' = IF mainPc = "pick" THEN "original" ELSE "returned"
    /\ UNCHANGED <<call, global_pool, build_pool,
                   repo, allow_merges, master_id, pr_id, parent_commits,
                   pr_linear_commits, has_merges, needs_rebase, pr_commit_set,
                   pickIdx, run, prev, commits, check_list, notes, spawnIdx,
                   collectIdx, printed, exit, task>>

\* MainResolveFail with the worktree of a failed cherry-pick left behind.
MainResolveFail_KeepsWorktree ==
    /\ exit = "running"
    /\ \E at \in FailPoints :
         /\ result' = MainErr(at, 0)
         /\ worktree' =
              IF at \in {"worktree_repo", "set_head", "checkout"}
              THEN "pruned" ELSE worktree
         /\ picked' = IF at = "new_head"
                      THEN Append(picked, CherryPicked(pr_linear_commits[pickIdx]))
                      ELSE picked
    /\ mainPc' = "returned"
    /\ UNCHANGED <<call, global_pool, build_pool,
                   repo, allow_merges, master_id, pr_id, parent_commits,
                   pr_linear_commits, has_merges, needs_rebase, pr_commit_set,
                   pickIdx, run, prev, commits, check_list, notes, spawnIdx,
                   collectIdx, printed, exit, task>>

\* One of these calls fails: real_main returns the error. The worktree, if
\* it was made, is dropped on the way out.
MainResolveFail ==
    /\ exit = "running"
    /\ \E at \in FailPoints :
         /\ result' = MainErr(at, 0)
         /\ worktree' =
              IF mainPc = "pick" \/ at \in {"worktree_repo", "set_head", "checkout"}
              THEN "pruned" ELSE worktree
         /\ picked' = IF at = "new_head"
                      THEN Append(picked, CherryPicked(pr_linear_commits[pickIdx]))
                      ELSE picked
    /\ mainPc' = "returned"
    /\ UNCHANGED <<call, global_pool, build_pool,
                   repo, allow_merges, master_id, pr_id, parent_commits,
                   pr_linear_commits, has_merges, needs_rebase, pr_commit_set,
                   pickIdx, run, prev, commits, check_list, notes, spawnIdx,
                   collectIdx, printed, exit, task>>

\* Step 0: the repository is opened.
MainOpen ==
    /\ exit = "running"
    /\ mainPc = "open"
    /\ mainPc' = "ancestors"
    /\ UNCHANGED <<call, global_pool, build_pool,
                   resolution, run, prev, commits, check_list, notes, spawnIdx,
                   collectIdx, result, printed, exit, task>>

\* Step 1: the first-parent history of master.
MainAncestors ==
    /\ exit = "running"
    /\ mainPc = "ancestors"
    /\ master_id' = repo.master
    /\ parent_commits' = FirstParents(repo, repo.master)
    /\ mainPc' = "prwalk"
    /\ UNCHANGED <<call, global_pool, build_pool,
                   repo, allow_merges, pr_id, pr_linear_commits, has_merges,
                   needs_rebase, pr_commit_set, worktree, picked, pickIdx,
                   run, prev, commits, check_list, notes, spawnIdx,
                   collectIdx, result, printed, exit, task>>

\* Step 2: the first-parent history of the PR, down to that of master.
MainPrWalk ==
    /\ exit = "running"
    /\ mainPc = "prwalk"
    /\ pr_id' = repo.tip
    /\ LET walk == PrWalk(repo, repo.tip, parent_commits, master_id) IN
         /\ pr_linear_commits' = walk.linear
         /\ has_merges' = walk.has_merges
         /\ needs_rebase' = walk.needs_rebase
    /\ mainPc' = "policy"
    /\ UNCHANGED <<call, global_pool, build_pool,
                   repo, allow_merges, master_id, parent_commits,
                   pr_commit_set, worktree, picked, pickIdx, run, prev,
                   commits, check_list, notes, spawnIdx, collectIdx, result,
                   printed, exit, task>>

\* A PR with merges is refused unless --allow-merges is given.
MainRefuseMerges ==
    /\ exit = "running"
    /\ mainPc = "policy"
    /\ ~allow_merges /\ has_merges
    /\ result' = MainErr("policy", 0)
    /\ mainPc' = "returned"
    /\ UNCHANGED <<call, global_pool, build_pool,
                   resolution, run, prev, commits, check_list, notes, spawnIdx,
                   collectIdx, printed, exit, task>>

MainPolicy ==
    /\ exit = "running"
    /\ mainPc = "policy"
    /\ ~(~allow_merges /\ has_merges)
    /\ mainPc' = "rebase"
    /\ UNCHANGED <<call, global_pool, build_pool,
                   resolution, run, prev, commits, check_list, notes, spawnIdx,
                   collectIdx, result, printed, exit, task>>

\* Step 3: when a rebase is needed and possible the temporary worktree is
\* made and set to master; otherwise step 3 is skipped.
MainRebase ==
    /\ exit = "running"
    /\ mainPc = "rebase"
    /\ IF needs_rebase /\ ~has_merges
       THEN worktree' = "live" /\ mainPc' = "pick"
       ELSE worktree' = worktree /\ mainPc' = "original"
    /\ UNCHANGED <<call, global_pool, build_pool,
                   repo, allow_merges, master_id, pr_id, parent_commits,
                   pr_linear_commits, has_merges, needs_rebase, pr_commit_set,
                   picked, pickIdx, run, prev, commits, check_list, notes,
                   spawnIdx, collectIdx, result, printed, exit, task>>

\* The commit the loop of step 3 records: the new HEAD, unless it is the
\* HEAD the cherry-pick started from.
Recorded(set, new_head, current_head) ==
    IF new_head = current_head THEN set ELSE set \cup {new_head}

\* One turn of the loop of step 3: the next commit of the PR is
\* cherry-picked onto HEAD and committed.
MainCherryPick ==
    /\ exit = "running"
    /\ mainPc = "pick"
    /\ pickIdx <= Len(pr_linear_commits)
    /\ LET new == CherryPicked(pr_linear_commits[pickIdx]) IN
         /\ picked' = Append(picked, new)
         /\ pr_commit_set' = Recorded(pr_commit_set, new.id, WtHead)
    /\ pickIdx' = pickIdx + 1
    /\ UNCHANGED <<call, global_pool, build_pool,
                   repo, allow_merges, master_id, pr_id, parent_commits,
                   pr_linear_commits, has_merges, needs_rebase, worktree,
                   run, prev, commits, check_list, notes, mainPc, spawnIdx,
                   collectIdx, result, printed, exit, task>>

\* The end of step 3: the worktree goes out of scope.
MainRebaseDone ==
    /\ exit = "running"
    /\ mainPc = "pick"
    /\ pickIdx > Len(pr_linear_commits)
    /\ worktree' = "pruned"
    /\ mainPc' = "original"
    /\ UNCHANGED <<call, global_pool, build_pool,
                   repo, allow_merges, master_id, pr_id, parent_commits,
                   pr_linear_commits, has_merges, needs_rebase, pr_commit_set,
                   picked, pickIdx, run, prev, commits, check_list, notes,
                   spawnIdx, collectIdx, result, printed, exit, task>>

RECURSIVE Orders(_)
\* The orders a HashSet may be iterated in.
Orders(set) ==
    IF set = {} THEN {<<>>}
    ELSE UNION {{<<c>> \o rest : rest \in Orders(set \ {c})} : c \in set}

\* MainOriginal with the set of step 4 taking the place of that of step 3.
MainOriginal_Overwrites ==
    /\ exit = "running"
    /\ mainPc = "original"
    /\ pr_commit_set' = Range(for_each_commit(repo, pr_id, parent_commits))
    /\ commits' \in Orders(pr_commit_set')
    /\ task' = [t \in 1..(Len(commits') * Len(check_list)) |-> InitTask]
    /\ mainPc' = "spawn"
    /\ UNCHANGED <<call, global_pool, build_pool,
                   repo, allow_merges, master_id, pr_id, parent_commits,
                   pr_linear_commits, has_merges, needs_rebase, worktree,
                   picked, pickIdx, run, prev, check_list, notes, spawnIdx,
                   collectIdx, result, printed, exit>>

\* Step 4: the commits of the PR join the set; step 5 then goes through the
\* set in the order its iterator gives.
MainOriginal ==
    /\ exit = "running"
    /\ mainPc = "original"
    /\ pr_commit_set' =
         pr_commit_set \cup Range(for_each_commit(repo, pr_id, parent_commits))
    /\ commits' \in Orders(pr_commit_set')
    /\ task' = [t \in 1..(Len(commits') * Len(check_list)) |-> InitTask]
    /\ mainPc' = "spawn"
    /\ UNCHANGED <<call, global_pool, build_pool,
                   repo, allow_merges, master_id, pr_id, parent_commits,
                   pr_linear_commits, has_merges, needs_rebase, worktree,
                   picked, pickIdx, run, prev, check_list, notes, spawnIdx,
                   collectIdx, result, printed, exit>>

(***************************************************************************)
(* real_main, step 5 (check-pr.rs).                                        *)
(***************************************************************************)
\* The receiver of a task's channel is alive while real_main holds
\* exec_threads: until it returns or unwinds.
ReceiverAlive == mainPc \in {"spawn", "collect"}

\* temp_repo succeeds and the task is spawned into the scope.
MainSpawn ==
    /\ exit = "running"
    /\ mainPc = "spawn"
    /\ spawnIdx <= NTasks
    /\ task' = [task EXCEPT ![spawnIdx].pc = "head"]
    /\ spawnIdx' = spawnIdx + 1
    /\ mainPc' = IF spawnIdx = NTasks THEN "collect" ELSE "spawn"
    /\ UNCHANGED <<call, global_pool, build_pool,
                   resolution,
                   run, prev, commits, check_list, notes, collectIdx, result,
                   printed, exit>>

\* temp_repo fails: the ? returns the error, dropping exec_threads.
MainSpawnFail ==
    /\ exit = "running"
    /\ mainPc = "spawn"
    /\ spawnIdx <= NTasks
    /\ result' = MainErr("provision", spawnIdx)
    /\ mainPc' = "returned"
    /\ UNCHANGED <<call, global_pool, build_pool,
                   resolution,
                   run, prev, commits, check_list, notes, spawnIdx, collectIdx,
                   printed, exit, task>>

\* CollectResult with a success resetting the result.
CollectResult_LastWins(res, outcome, t) ==
    IF outcome.ok THEN MainOk ELSE MainErr("task", t)

\* The match of the collecting loop: what result becomes.
CollectResult(res, outcome, t) ==
    IF outcome.ok THEN res ELSE MainErr("task", t)

\* The match of the collecting loop: what is printed.
CollectPrinted(pr, outcome, t) ==
    IF outcome.ok THEN pr \cup {t} ELSE pr

\* CollectNext with the loop left at the first failure.
CollectNext_FailFast(outcome, t) ==
    IF t = NTasks \/ ~outcome.ok THEN "returned" ELSE "collect"

\* The collecting loop goes through all of exec_threads.
CollectNext(outcome, t) ==
    IF t = NTasks THEN "returned" ELSE "collect"

\* recv returns the outcome the task has sent.
MainCollect ==
    /\ exit = "running"
    /\ mainPc = "collect"
    /\ collectIdx <= NTasks
    /\ task[collectIdx].pc = "done"
    /\ result' = CollectResult(result, task[collectIdx].result, collectIdx)
    /\ printed' = CollectPrinted(printed, task[collectIdx].result, collectIdx)
    /\ collectIdx' = collectIdx + 1
    /\ mainPc' = CollectNext(task[collectIdx].result, collectIdx)
    /\ UNCHANGED <<call, global_pool, build_pool,
                   resolution,
                   run, prev, commits, check_list, notes, spawnIdx, exit, task>>

\* recv fails, the sender having been dropped by a panic of the task:
\* expect("execution thread to not panic") panics.
MainCollectPanic ==
    /\ exit = "running"
    /\ mainPc = "collect"
    /\ collectIdx <= NTasks
    /\ task[collectIdx].pc = "panicked"
    /\ mainPc' = "panicked"
    /\ UNCHANGED <<call, global_pool, build_pool,
                   resolution,
                   run, prev, commits, check_list, notes, spawnIdx, collectIdx,
                   result, printed, exit, task>>

TaskOver(t) == task[t].pc \in {"unspawned", "done", "panicked"}

\* main: rayon::scope returns once every spawned task is over, resuming a
\* panic of any of them; otherwise main returns what real_main returned,
\* and the runtime prints the error it returns.
MainExit ==
    /\ exit = "running"
    /\ mainPc \in {"returned", "panicked"}
    /\ \A t \in TaskIds : TaskOver(t)
    /\ exit' = IF mainPc = "panicked" \/ \E t \in TaskIds : task[t].pc = "panicked"
               THEN "panic"
               ELSE IF result.ok THEN "ok" ELSE "err"
    /\ printed' = IF exit' = "err" /\ result.kind = "task"
                  THEN printed \cup {result.at} ELSE printed
    /\ UNCHANGED <<call, global_pool, build_pool,
                   resolution,
                   run, prev, commits, check_list, notes, mainPc, spawnIdx,
                   collectIdx, result, task>>

\* The operator runs the program again, on the same repository.
Restart ==
    /\ exit # "running"
    /\ run < MaxRuns
    /\ run' = run + 1
    /\ prev' = exit
    /\ UNCHANGED <<call, global_pool, build_pool, resolution, commits, check_list,
                   notes>>
    /\ StartOfRun(mainPc', spawnIdx', collectIdx', result', printed', exit', task')

(***************************************************************************)
(* The two pools: rayon::scope of main runs real_main and the tasks it     *)
(* spawns on the global pool; JobHandle::spawn and par_iter run on         *)
(* build_pool (check-pr.rs, job.rs, checks/rust.rs).                       *)
(***************************************************************************)
\* The tasks that are running the closure given to s.spawn: each holds a
\* thread of the global pool, also while it blocks in JobHandle::join.
RunningTasks == {t \in TaskIds : task[t].pc \in {"spawn", "join", "send"}}

\* The threads of the global pool that are taken: real_main runs inside the
\* closure of rayon::scope, on a thread of the global pool, until it
\* returns or panics.
GlobalBusy ==
    (IF mainPc \notin {"returned", "panicked"} THEN 1 ELSE 0)
    + Cardinality(RunningTasks)

\* s.spawn: a queued task is taken up by a thread of the global pool that
\* runs nothing else.
GlobalWorkerFree == GlobalBusy < global_pool

\* The cargo invocations of a job that are under way.
RunningItems(h) == {ki \in DOMAIN h.item : h.item[ki] = "running"}

\* The threads of build_pool the job of version number v of task t holds:
\* the one that runs its closure, which takes part in its par_iter, and one
\* for every other item under way.
JobThreads(t, v) ==
    LET h == task[t].handles[v] IN
    IF h.pc # "group" THEN {}
    ELSE IF RunningItems(h) = {} THEN {<<t, v, <<0, 0>>>>}
    ELSE {<<t, v, ki>> : ki \in RunningItems(h)}

\* The threads of build_pool that are taken.
BuildBusy ==
    Cardinality(UNION {UNION {JobThreads(t, v) : v \in DOMAIN task[t].handles} :
                          t \in TaskIds})

\* BuildWorkerFree with no limit on the threads.
BuildWorkerFree_Unbounded == TRUE

\* pool.spawn and par_iter: work is taken up by a thread of build_pool that
\* runs nothing else.
BuildWorkerFree == BuildBusy < build_pool

\* An item of a job is taken up by the thread of the job when that thread
\* runs no item, and by another thread of build_pool otherwise.
ItemWorker(h) == RunningItems(h) = {} \/ BuildWorkerFree

(***************************************************************************)
(* RustCheck::execute, run by a (commit, check) task (checks/rust.rs).     *)
(***************************************************************************)
\* Drop for JobHandle: a handle dropped before join is reported.
DropHandle(h) == [h EXCEPT !.dropped = TRUE, !.warned = ~h.joined]

\* repo.head() resolves: the notes of the commit are read.  What head()
\* gives is left open here; head(TempRepoRefs) is what it gives in a
\* repository as temp_repo leaves it.
ExecHeadOk(t) ==
    /\ exit = "running"
    /\ task[t].pc = "head"
    /\ GlobalWorkerFree
    /\ task' = [task EXCEPT
                  ![t].pc = "spawn",
                  ![t].existing = ExistingNotes(notes[TaskCommit(t)])]
    /\ UNCHANGED <<call, global_pool, build_pool,
                   resolution,
                   run, prev, commits, check_list, notes, mainPc, spawnIdx,
                   collectIdx, result, printed, exit>>

\* repo.head() fails: "getting HEAD".
ExecHeadErr(t) ==
    /\ exit = "running"
    /\ task[t].pc = "head"
    /\ GlobalWorkerFree
    /\ task' = [task EXCEPT ![t].pc = "send", ![t].result = ExecErr("head", 0)]
    /\ UNCHANGED <<call, global_pool, build_pool,
                   resolution,
                   run, prev, commits, check_list, notes, mainPc, spawnIdx,
                   collectIdx, result, printed, exit>>

\* HEAD has no target: target().unwrap() panics, and the task's sender is
\* dropped with nothing sent.
ExecHeadPanic(t) ==
    /\ exit = "running"
    /\ task[t].pc = "head"
    /\ GlobalWorkerFree
    /\ task' = [task EXCEPT ![t].pc = "panicked"]
    /\ UNCHANGED <<call, global_pool, build_pool,
                   resolution,
                   run, prev, commits, check_list, notes, mainPc, spawnIdx,
                   collectIdx, result, printed, exit>>

\* temp_repo succeeds for the next version: its job is spawned.
ExecSpawnJob(t) ==
    /\ exit = "running"
    /\ task[t].pc = "spawn"
    /\ LET v == Len(task[t].handles) + 1 IN
         task' = [task EXCEPT
                    ![t].handles = Append(@, NewHandle(TaskCheck(t))),
                    ![t].pc = IF v = Len(Versions(TaskCheck(t)))
                              THEN "join" ELSE "spawn"]
    /\ UNCHANGED <<call, global_pool, build_pool,
                   resolution,
                   run, prev, commits, check_list, notes, mainPc, spawnIdx,
                   collectIdx, result, printed, exit>>

\* What the ? after temp_repo does to the handles spawned so far.
SpawnFailHandles(handles) ==
    [v \in DOMAIN handles |-> DropHandle(handles[v])]

\* temp_repo fails for the next version: the ? returns the error.
ExecSpawnFail(t) ==
    /\ exit = "running"
    /\ task[t].pc = "spawn"
    /\ LET v == Len(task[t].handles) + 1 IN
         task' = [task EXCEPT
                    ![t].handles = SpawnFailHandles(@),
                    ![t].result = ExecErr("provision", v),
                    ![t].pc = "send"]
    /\ UNCHANGED <<call, global_pool, build_pool,
                   resolution,
                   run, prev, commits, check_list, notes, mainPc, spawnIdx,
                   collectIdx, result, printed, exit>>

\* Is the value a job sent an Err?
IsErr(res) == res \in {"err", "err_panicked"}

\* The match of the joining loop: what result becomes when the job of
\* version number v is joined.
JoinResult(res, h, v) ==
    IF IsErr(h.res) THEN ExecErr("job", v)
    ELSE IF res.ok
         THEN [res EXCEPT !.notes = @ \cup {<<v, ki[1], ki[2]>> : ki \in h.new_notes}]
         ELSE res

\* The joining loop: h.join() returns what the job sent, and h is dropped
\* at the end of the iteration.
ExecJoin(t) ==
    /\ exit = "running"
    /\ task[t].pc = "join"
    /\ LET j == task[t].joinIdx
           h == task[t].handles[j]
       IN
         /\ h.pc = "sent"
         /\ task' = [task EXCEPT
                       ![t].result = JoinResult(@, h, j),
                       ![t].handles[j] =
                           DropHandle([h EXCEPT
                                         !.joined = TRUE,
                                         !.new_notes =
                                             IF ~IsErr(h.res) /\ task[t].result.ok
                                             THEN {} ELSE @]),
                       ![t].joinIdx = j + 1,
                       ![t].pc = IF j = Len(task[t].handles)
                                 THEN "send" ELSE "join"]
    /\ UNCHANGED <<call, global_pool, build_pool,
                   resolution,
                   run, prev, commits, check_list, notes, mainPc, spawnIdx,
                   collectIdx, result, printed, exit>>

\* tx.send of the task: real_main still holds the receiver.
TaskSend(t) ==
    /\ exit = "running"
    /\ task[t].pc = "send"
    /\ ReceiverAlive
    /\ task' = [task EXCEPT ![t].pc = "done"]
    /\ UNCHANGED <<call, global_pool, build_pool,
                   resolution,
                   run, prev, commits, check_list, notes, mainPc, spawnIdx,
                   collectIdx, result, printed, exit>>

\* tx.send of the task fails: expect("main still alive") panics.
TaskSendFail(t) ==
    /\ exit = "running"
    /\ task[t].pc = "send"
    /\ ~ReceiverAlive
    /\ task' = [task EXCEPT ![t].pc = "panicked"]
    /\ UNCHANGED <<call, global_pool, build_pool,
                   resolution,
                   run, prev, commits, check_list, notes, mainPc, spawnIdx,
                   collectIdx, result, printed, exit>>

(***************************************************************************)
(* The job of one toolchain version: the closure given to                  *)
(* JobHandle::spawn (job.rs, checks/rust.rs).                              *)
(***************************************************************************)
Handle(t, v) == task[t].handles[v]
HandleIds(t) == DOMAIN task[t].handles

\* The descriptor of ConcreteJob ki of version number v of a check.
MyNote(check, v, ki) ==
    notes_str(Versions(check)[v], check.jobs[ki[1]], Exts(check, ki[1])[ki[2]])

GroupItems(check, k) == {ki \in Items(check) : ki[1] = k}

\* An item of the group has returned an Err.
GroupFailed(check, h) ==
    \E ki \in GroupItems(check, h.k) : h.item[ki] \in {"err", "verr"}

\* par_iter().try_for_each: an item is taken up while no item of the group
\* has returned an Err.
MayStart(check, h, ki) ==
    /\ h.pc = "group"
    /\ ki[1] = h.k
    /\ h.item[ki] = "pending"
    /\ ~GroupFailed(check, h)

\* SpawnSends with the panic swallowed.
SpawnSends_PanicLost(outcome) ==
    IF outcome = "panic" THEN "ok" ELSE outcome

\* The closure of JobHandle::spawn: what is sent for what f did, a panic of
\* f being caught.
SpawnSends(outcome) ==
    IF outcome = "panic" THEN "err_panicked" ELSE outcome

\* tx.send(res).unwrap() in the pool: with the receiver dropped the unwrap
\* panics outside catch_unwind, in a pool without a panic handler, and the
\* process aborts.
JobSends(t, v, outcome) ==
    IF Handle(t, v).dropped
    THEN /\ exit' = "abort"
         /\ task' = [task EXCEPT
                       ![t].handles[v].pc = "lost",
                       ![t].handles[v].f = outcome]
    ELSE /\ exit' = exit
         /\ task' = [task EXCEPT
                       ![t].handles[v].pc = "sent",
                       ![t].handles[v].f = outcome,
                       ![t].handles[v].res = SpawnSends(outcome)]

\* pin_deps and toml succeed: the loop over the jobs begins.
JobStart(t, v) ==
    /\ exit = "running"
    /\ Handle(t, v).pc = "start"
    /\ BuildWorkerFree
    /\ task' = [task EXCEPT ![t].handles[v].pc = "group"]
    /\ UNCHANGED <<call, global_pool, build_pool,
                   resolution,
                   run, prev, commits, check_list, notes, mainPc, spawnIdx,
                   collectIdx, result, printed, exit>>

\* pin_deps or toml fails: the ? returns the error.
JobStartErr(t, v) ==
    /\ exit = "running"
    /\ Handle(t, v).pc = "start"
    /\ BuildWorkerFree
    /\ JobSends(t, v, "err")
    /\ UNCHANGED <<call, global_pool, build_pool,
                   resolution,
                   run, prev, commits, check_list, notes, mainPc, spawnIdx,
                   collectIdx, result, printed>>

\* The closure panics.
JobPanic(t, v) ==
    /\ exit = "running"
    /\ Handle(t, v).pc = "start"
    /\ BuildWorkerFree
    /\ JobSends(t, v, "panic")
    /\ UNCHANGED <<call, global_pool, build_pool,
                   resolution,
                   run, prev, commits, check_list, notes, mainPc, spawnIdx,
                   collectIdx, result, printed>>

\* PushNote with the note pushed whatever cargo returned.
PushNote_Always(new_notes, ki, outcome) == new_notes \cup {ki}

\* SingleCheck::run, the tail: the note is pushed once the cargo
\* invocation has returned Ok.
PushNote(new_notes, ki, outcome) ==
    IF outcome = "ok" THEN new_notes \cup {ki} ELSE new_notes

\* SingleCheck::run: the descriptor is among the existing notes.
ItemSkip(t, v, ki) ==
    /\ exit = "running"
    /\ MayStart(TaskCheck(t), Handle(t, v), ki)
    /\ ItemWorker(Handle(t, v))
    /\ AlreadyDone(MyNote(TaskCheck(t), v, ki), task[t].existing)
    /\ task' = [task EXCEPT ![t].handles[v].item[ki] = "skipped"]
    /\ UNCHANGED <<call, global_pool, build_pool,
                   resolution,
                   run, prev, commits, check_list, notes, mainPc, spawnIdx,
                   collectIdx, result, printed, exit>>

\* SingleCheck::run: cargo is invoked for the job.
ItemRun(t, v, ki) ==
    /\ exit = "running"
    /\ MayStart(TaskCheck(t), Handle(t, v), ki)
    /\ ItemWorker(Handle(t, v))
    /\ ~AlreadyDone(MyNote(TaskCheck(t), v, ki), task[t].existing)
    /\ task' = [task EXCEPT ![t].handles[v].item[ki] = "running"]
    /\ UNCHANGED <<call, global_pool, build_pool,
                   resolution,
                   run, prev, commits, check_list, notes, mainPc, spawnIdx,
                   collectIdx, result, printed, exit>>

\* SingleCheck::run: version_string or rustc_version_string fails.
ItemVersionErr(t, v, ki) ==
    /\ exit = "running"
    /\ MayStart(TaskCheck(t), Handle(t, v), ki)
    /\ ItemWorker(Handle(t, v))
    /\ ~AlreadyDone(MyNote(TaskCheck(t), v, ki), task[t].existing)
    /\ task' = [task EXCEPT ![t].handles[v].item[ki] = "verr"]
    /\ UNCHANGED <<call, global_pool, build_pool,
                   resolution,
                   run, prev, commits, check_list, notes, mainPc, spawnIdx,
                   collectIdx, result, printed, exit>>

\* SingleCheck::run: the cargo invocation returns Ok or an Err.
ItemFinish(t, v, ki) ==
    /\ exit = "running"
    /\ Handle(t, v).pc = "group"
    /\ Handle(t, v).item[ki] = "running"
    /\ \E outcome \in {"ok", "err"} :
         task' = [task EXCEPT
                    ![t].handles[v].item[ki] = outcome,
                    ![t].handles[v].new_notes = PushNote(@, ki, outcome)]
    /\ UNCHANGED <<call, global_pool, build_pool,
                   resolution,
                   run, prev, commits, check_list, notes, mainPc, spawnIdx,
                   collectIdx, result, printed, exit>>

\* try_for_each has returned: no item of the group is running, and either
\* one has failed or every one is over.
GroupOver(check, h) ==
    /\ h.pc = "group"
    /\ \A ki \in GroupItems(check, h.k) : h.item[ki] # "running"
    /\ \/ GroupFailed(check, h)
       \/ \A ki \in GroupItems(check, h.k) : h.item[ki] \in {"ok", "skipped"}

\* JobGroupFail with the error of the group ignored.
JobGroupFail_Ignored(t, v) ==
    /\ exit = "running"
    /\ GroupOver(TaskCheck(t), Handle(t, v))
    /\ GroupFailed(TaskCheck(t), Handle(t, v))
    /\ IF Handle(t, v).k < Len(TaskCheck(t).jobs)
       THEN /\ task' = [task EXCEPT ![t].handles[v].k = @ + 1]
            /\ exit' = exit
       ELSE JobSends(t, v, "ok")
    /\ UNCHANGED <<call, global_pool, build_pool,
                   resolution,
                   run, prev, commits, check_list, notes, mainPc, spawnIdx,
                   collectIdx, result, printed>>

\* The ? after try_for_each returns the error of the group.
JobGroupFail(t, v) ==
    /\ exit = "running"
    /\ GroupOver(TaskCheck(t), Handle(t, v))
    /\ GroupFailed(TaskCheck(t), Handle(t, v))
    /\ JobSends(t, v, "err")
    /\ UNCHANGED <<call, global_pool, build_pool,
                   resolution,
                   run, prev, commits, check_list, notes, mainPc, spawnIdx,
                   collectIdx, result, printed>>

\* The loop over the jobs goes on to the next job.
JobGroupNext(t, v) ==
    /\ exit = "running"
    /\ GroupOver(TaskCheck(t), Handle(t, v))
    /\ ~GroupFailed(TaskCheck(t), Handle(t, v))
    /\ Handle(t, v).k < Len(TaskCheck(t).jobs)
    /\ task' = [task EXCEPT ![t].handles[v].k = @ + 1]
    /\ UNCHANGED <<call, global_pool, build_pool,
                   resolution,
                   run, prev, commits, check_list, notes, mainPc, spawnIdx,
                   collectIdx, result, printed, exit>>

\* The loop over the jobs is over: the closure returns Ok(()).
JobDone(t, v) ==
    /\ exit = "running"
    /\ GroupOver(TaskCheck(t), Handle(t, v))
    /\ ~GroupFailed(TaskCheck(t), Handle(t, v))
    /\ Handle(t, v).k = Len(TaskCheck(t).jobs)
    /\ JobSends(t, v, "ok")
    /\ UNCHANGED <<call, global_pool, build_pool,
                   resolution,
                   run, prev, commits, check_list, notes, mainPc, spawnIdx,
                   collectIdx, result, printed>>

(***************************************************************************)
(* Decoding a check descriptor: Check, RustCheck, RustJob and              *)
(* single_or_seq (checks/mod.rs, checks/rust.rs).                          *)
(***************************************************************************)
\* A JSON value: t is one of "str", "num", "bool", "seq" and "map", and v
\* the string, the number, the boolean, the sequence of values or the
\* function from keys to values.
Json(t, v) == [t |-> t, v |-> v]

\* Results of a decoding.
DecOk(v) == [ok |-> TRUE, v |-> v]
DecErr == [ok |-> FALSE, v |-> <<>>]

\* The elements of a sequence decoded one after the other: the first
\* error is the result.
RECURSIVE DecodeAll(_, _)
DecodeAll(results, acc) ==
    IF results = <<>> THEN DecOk(acc)
    ELSE IF ~Head(results).ok THEN DecErr
    ELSE DecodeAll(Tail(results), Append(acc, Head(results).v))

\* A String, or a RustJob, from the string that visit_str is given: a
\* string names a variant of RustJob that has no fields.
FromStr(type, s) ==
    IF type = "String" THEN DecOk(s)
    ELSE IF s = "build" THEN DecOk(Build)
    ELSE IF s = "examples" THEN DecOk(Examples)
    ELSE IF s = "test" THEN DecOk(Test)
    ELSE DecErr

\* A String, or a RustJob, from a JSON value: {"fuzz": {..}} is Fuzz, iters
\* being default_fuzz_iters when absent.
FromJson(type, j) ==
    IF j.t = "str" THEN FromStr(type, j.v)
    ELSE IF type = "RustJob" /\ j.t = "map" /\ DOMAIN j.v = {"fuzz"}
            /\ j.v["fuzz"].t = "map"
         THEN LET body == j.v["fuzz"].v IN
              IF "iters" \notin DOMAIN body THEN DecOk(Fuzz(default_fuzz_iters))
              ELSE IF body["iters"].t = "num" THEN DecOk(Fuzz(body["iters"].v))
              ELSE DecErr
    ELSE DecErr

\* Vec<T> from a JSON value.
VecFromJson(type, j) ==
    IF j.t = "seq"
    THEN DecodeAll([i \in DOMAIN j.v |-> FromJson(type, j.v[i])], <<>>)
    ELSE DecErr

\* single_or_seq: the visitor has visit_str, which decodes the value from
\* the string, and visit_seq; any other JSON value is an error.
single_or_seq(type, j) ==
    IF j.t = "str"
    THEN LET r == FromStr(type, j.v) IN IF r.ok THEN DecOk(<<r.v>>) ELSE DecErr
    ELSE VecFromJson(type, j)

\* The fields of RustCheck under rename_all = "kebab-case", with the tag of
\* Check.
KnownFields == {"type", "features", "version", "jobs", "only-tip", "working-dir"}

\* serde_json::from_str::<Check> of a JSON object d: the tag picks
\* RustCheck, which denies unknown fields and has a default for each field.
decode(d) ==
    IF "type" \notin DOMAIN d THEN DecErr
    ELSE IF d["type"] # Json("str", "rust") THEN DecErr
    ELSE IF ~(DOMAIN d \subseteq KnownFields) THEN DecErr
    ELSE LET features == IF "features" \in DOMAIN d
                         THEN VecFromJson("String", d["features"])
                         ELSE DecOk(<<>>)
             version == IF "version" \in DOMAIN d
                        THEN single_or_seq("String", d["version"])
                        ELSE DecOk(<<>>)
             jobs == IF "jobs" \in DOMAIN d
                     THEN single_or_seq("RustJob", d["jobs"])
                     ELSE DecOk(default_rust_jobs)
             only_tip == IF "only-tip" \in DOMAIN d
                         THEN IF d["only-tip"].t = "bool"
                              THEN DecOk(d["only-tip"].v) ELSE DecErr
                         ELSE DecOk(FALSE)
             working_dir == IF "working-dir" \in DOMAIN d
                            THEN FromJson("String", d["working-dir"])
                            ELSE DecOk("none")
         IN IF features.ok /\ version.ok /\ jobs.ok /\ only_tip.ok /\ working_dir.ok
            THEN DecOk([check |-> [RustCheck(features.v, version.v, jobs.v)
                                     EXCEPT !.only_tip = only_tip.v],
                        working_dir |-> working_dir.v])
            ELSE DecErr

\* Values given for version and for jobs: a job alone, a fuzz job being
\* {"fuzz": {}} or {"fuzz": {"iters": n}}, a list of one job, and the list
\* of the tests.
VersionValues ==
    <<Json("str", "stable"), Json("seq", <<Json("str", "stable")>>),
      Json("seq", <<Json("str", "stable"), Json("str", "nightly")>>)>>

SingleJobValues ==
    <<Json("str", "build"), Json("str", "test"), Json("str", "fuzz"),
      Json("map", [fuzz |-> Json("map", <<>>)])>>
    \o [n \in 1..MaxIters |->
          Json("map", [fuzz |-> Json("map", [iters |-> Json("num", n)])])]

JobValues ==
    SingleJobValues
    \o [i \in DOMAIN SingleJobValues |-> Json("seq", <<SingleJobValues[i]>>)]
    \o <<Json("seq", <<Json("str", "test"), SingleJobValues[4]>>)>>

\* Other fields of a descriptor: those of the tests, and two that
\* RustCheck does not have.
OtherFields ==
    <<<<>>,
      [features |-> Json("seq", <<Json("str", "a")>>)],
      ("only-tip" :> Json("bool", TRUE)) @@ ("working-dir" :> Json("str", "fuzz")),
      ("only_tip" :> Json("bool", TRUE)),
      [timeout |-> Json("num", 1)]>>

\* The descriptor made of the chosen values, 0 choosing none.
Descriptor(in) ==
    (("type" :> Json("str", "rust"))
     @@ (IF in[1] = 0 THEN <<>> ELSE "version" :> VersionValues[in[1]]))
    @@ ((IF in[2] = 0 THEN <<>> ELSE "jobs" :> JobValues[in[2]])
        @@ OtherFields[in[3]])

\* The descriptors decoding is given.
DecodeCalls ==
    [fn : {"decode"},
     in : (0..Len(VersionValues)) \X (0..Len(JobValues)) \X DOMAIN OtherFields,
     done : {FALSE}, out : {DecErr}]

\* A descriptor is decoded.
CallDecode ==
    /\ call.fn = "decode"
    /\ ~call.done
    /\ call' = [call EXCEPT !.done = TRUE, !.out = decode(Descriptor(call.in))]
    /\ UNCHANGED <<resolution, run, prev, commits, check_list, notes, mainPc,
                   spawnIdx, collectIdx, result, printed, exit, task,
                   global_pool, build_pool>>

(***************************************************************************)
(* Provisioning a repository: temp_repo, TempRepo and copy_tree (git.rs).  *)
(***************************************************************************)
\* An object of a git object database: the data of a blob is its
\* contents, that of a tree its entries, and that of a commit the id of its
\* tree.
Object(kind, data) == [kind |-> kind, data |-> data]
Entry(name, kind, id) == [name |-> name, kind |-> kind, id |-> id]

\* The object database of the source repository: four commits, the trees
\* and the blobs they reach.  The entries of a tree are sorted by name.
SourceOdb ==
    [b1 |-> Object("blob", "A"), b2 |-> Object("blob", "B"),
     b3 |-> Object("blob", "C"),
     s1 |-> Object("tree", <<Entry("x", "blob", "b2")>>),
     t0 |-> Object("tree", <<>>),
     t1 |-> Object("tree", <<Entry("f1", "blob", "b1")>>),
     t2 |-> Object("tree", <<Entry("d", "tree", "s1"),
                             Entry("f1", "blob", "b1")>>),
     t3 |-> Object("tree", <<Entry("d", "tree", "s1"),
                             Entry("f1", "blob", "b3"),
                             Entry("f2", "blob", "b3")>>),
     q0 |-> Object("commit", "t0"), q1 |-> Object("commit", "t1"),
     q2 |-> Object("commit", "t2"), q3 |-> Object("commit", "t3")]

\* The names of tree entries, in the order git sorts them.
SortedNames == <<"d", "f1", "f2", "x">>

\* The id of an object is the hash of its kind and data: the same object
\* has the same id in every database.
SameObject(a, b) == a.kind = b.kind /\ a.data = b.data

Oid(obj) ==
    IF \E id \in DOMAIN SourceOdb : SameObject(SourceOdb[id], obj)
    THEN CHOOSE id \in DOMAIN SourceOdb : SameObject(SourceOdb[id], obj)
    ELSE "other"

\* What can go wrong with one object during a copy: the source cannot read
\* it, the destination cannot write it, or the source holds data under its
\* id that does not hash to it.
NoFault == [at |-> "none", what |-> "none"]
Faults ==
    {NoFault} \cup
    [at : {id \in DOMAIN SourceOdb : SourceOdb[id].kind # "commit"},
     what : {"read", "write", "hash"}]

\* Data of the kind of obj that no object of the source has.
Corrupt(obj) ==
    IF obj.kind = "tree" THEN <<Entry("x", "blob", "other")>> ELSE "corrupt"

\* src_odb.read(id): the object stored under id.
OdbRead(odb, id, fault) ==
    IF fault = [at |-> id, what |-> "hash"]
    THEN [odb[id] EXCEPT !.data = Corrupt(odb[id])]
    ELSE odb[id]

\* dst_odb.write(kind, data): the database with the object stored under
\* its hash.
OdbWrite(odb, obj) ==
    [id \in DOMAIN odb \cup {Oid(obj)} |-> IF id = Oid(obj) THEN obj ELSE odb[id]]

\* tree.walk(PreOrder): the ids of the entries in the order the callback is
\* given them, an entry that is a tree being followed by its own entries.
RECURSIVE WalkEntries(_, _)
WalkEntries(odb, entries) ==
    IF entries = <<>> THEN <<>>
    ELSE LET e == Head(entries) IN
         <<e.id>>
         \o (IF e.kind = "tree" THEN WalkEntries(odb, odb[e.id].data) ELSE <<>>)
         \o WalkEntries(odb, Tail(entries))

\* The references of the repository Repository::init makes in
\* TempRepo::new: HEAD is symbolic and names a branch that does not exist.
TempRepoRefs == [HEAD |-> "refs/heads/master"]

\* repo.head(): HEAD is followed to the branch it names, which has to
\* exist; its target is the id head() gives.
head(refs) ==
    IF refs["HEAD"] \in DOMAIN refs THEN refs[refs["HEAD"]] ELSE "unborn"

\* What provisioning comes to: kind is "ok", "err" for an Err whose message
\* names the ids in named, or "panic"; dst is the destination database and
\* workdir the files in the directory of the new repository.  No step of
\* the provisioning writes a reference: refs is what TempRepo::new made.
Provisioned(kind, named, dst, workdir) ==
    [kind |-> kind, named |-> named, dst |-> dst, workdir |-> workdir,
     refs |-> TempRepoRefs]

\* The callback of the walk, entry after entry: a failed read or write sets
\* abort_err, naming the entry, and aborts the walk; assert_eq panics when
\* the id the destination computed is not the id of the entry.
RECURSIVE CopyWalk(_, _, _, _)
CopyWalk(src, ids, dst, fault) ==
    IF ids = <<>> THEN Provisioned("ok", {}, dst, {})
    ELSE LET id == Head(ids) IN
         IF fault = [at |-> id, what |-> "read"]
         THEN Provisioned("err", {id}, dst, {})
         ELSE IF fault = [at |-> id, what |-> "write"]
         THEN Provisioned("err", {id}, dst, {})
         ELSE LET obj == OdbRead(src, id, fault) IN
              IF Oid(obj) # id
              THEN Provisioned("panic", {}, OdbWrite(dst, obj), {})
              ELSE CopyWalk(src, Tail(ids), OdbWrite(dst, obj), fault)

\* copy_tree: the walk, then the tree itself.  walk_abort is what
\* tree.walk returns when its callback aborts: with "err" the ? after the
\* walk returns "walking tree {tree}", and with "ok" abort_err? returns the
\* error the callback has set.
copy_tree(src, dst, tree, fault, walk_abort) ==
    LET w == CopyWalk(src, WalkEntries(src, src[tree].data), dst, fault) IN
    IF w.kind = "panic" THEN w
    ELSE IF w.kind = "err"
         THEN IF walk_abort = "err"
              THEN Provisioned("err", {tree}, w.dst, {})
              ELSE w
    ELSE IF fault.at = tree /\ fault.what \in {"read", "write"}
         THEN Provisioned("err", {tree}, w.dst, {})
    ELSE LET obj == OdbRead(src, tree, fault) IN
         IF Oid(obj) # tree
         THEN Provisioned("panic", {}, OdbWrite(w.dst, obj), {})
         ELSE Provisioned("ok", {}, OdbWrite(w.dst, obj), {})

\* The files below a tree of a database: <<path, blob id>>, a path being
\* the names from the tree down to the file.
RECURSIVE Files(_, _)
Files(odb, tree) ==
    UNION {IF e.kind = "tree"
           THEN {<<<<e.name>> \o f[1], f[2]>> : f \in Files(odb, e.id)}
           ELSE {<<<<e.name>>, e.id>>} : e \in Range(odb[tree].data)}

\* The tree object of directory dir of an index.
RECURSIVE TreeAt(_, _)
TreeAt(index, dir) ==
    LET below == {f \in index : /\ Len(dir) < Len(f[1])
                                 /\ SubSeq(f[1], 1, Len(dir)) = dir}
        names == {f[1][Len(dir) + 1] : f \in below}
        sorted == SelectSeq(SortedNames, LAMBDA n : n \in names)
        entry(n) ==
            IF \E f \in below : f[1] = Append(dir, n)
            THEN Entry(n, "blob",
                       (CHOOSE f \in below : f[1] = Append(dir, n))[2])
            ELSE Entry(n, "tree", Oid(TreeAt(index, Append(dir, n))))
    IN Object("tree", [i \in 1..Len(sorted) |-> entry(sorted[i])])

\* The directories of an index, its root included.
IndexDirs(index) ==
    {<<>>} \cup UNION {{SubSeq(f[1], 1, n) : n \in 1..(Len(f[1]) - 1)} : f \in index}

\* index.write_tree_to(repo): the trees of the index are written to the
\* database, which has to hold every blob of the index.
RECURSIVE WriteTrees(_, _, _)
WriteTrees(index, dirs, odb) ==
    IF dirs = {} THEN odb
    ELSE LET dir == CHOOSE d \in dirs : TRUE IN
         WriteTrees(index, dirs \ {dir}, OdbWrite(odb, TreeAt(index, dir)))

\* repo.checkout_tree(tree): the files written to the directory of the
\* repository, <<path, contents>>.
Checkout(odb, tree) == {<<f[1], odb[f[2]].data>> : f \in Files(odb, tree)}

\* TempRepoNew with an object in the new database.
TempRepoNew_WithObject == [b3 |-> SourceOdb["b3"]]

\* TempRepo::new: Repository::init in a new temporary directory; the
\* database of the new repository is empty.
TempRepoNew == <<>>

\* TempRepo::copy_tree_and_checkout.
copy_tree_and_checkout(src, new_repo, tree, fault, walk_abort) ==
    LET c == copy_tree(src, new_repo, tree, fault, walk_abort) IN
    IF c.kind # "ok" THEN Provisioned(c.kind, c.named, <<>>, {})
    ELSE LET index == Files(src, tree) IN
         IF \E f \in index : f[2] \notin DOMAIN c.dst THEN Provisioned("err", {tree}, <<>>, {})
         ELSE LET dst == WriteTrees(index, IndexDirs(index), c.dst)
                  new_id == Oid(TreeAt(index, <<>>))
              IN Provisioned("ok", {}, dst, Checkout(dst, new_id))

\* temp_repo: the commit and its tree are looked up in the source, "finding
\* commit {commit_id}" being the error when it has no such commit; an error
\* of the copy is returned in the context "copying commit {commit_id}'s
\* tree to {path}".
temp_repo(src, commit_id, fault, walk_abort) ==
    IF commit_id \notin DOMAIN src
    THEN Provisioned("err", {commit_id}, <<>>, {})
    ELSE
    LET tree == src[commit_id].data
        r == copy_tree_and_checkout(src, TempRepoNew, tree, fault, walk_abort)
    IN IF r.kind = "err"
       THEN Provisioned("err", r.named \cup {commit_id}, <<>>, {})
       ELSE r

\* What temp_repo can be given: a commit of the source, what goes wrong
\* during the copy, and what tree.walk returns when its callback aborts.
TempRepoCalls ==
    [fn : {"temp_repo"},
     commit : {id \in DOMAIN SourceOdb : SourceOdb[id].kind = "commit"},
     fault : Faults,
     walk_abort : {"ok", "err"}, done : {FALSE}, out : {<<>>}]

\* temp_repo is called.
CallTempRepo ==
    /\ call.fn = "temp_repo"
    /\ ~call.done
    /\ call' = [call EXCEPT
                  !.done = TRUE,
                  !.out = temp_repo(SourceOdb, call.commit, call.fault,
                                    call.walk_abort)]
    /\ UNCHANGED <<resolution, run, prev, commits, check_list, notes, mainPc,
                   spawnIdx, collectIdx, result, printed, exit, task,
                   global_pool, build_pool>>

(***************************************************************************)
(* The temporary directories: a TempRepo removes its directory when it is  *)
(* dropped (git.rs), and it is dropped where its owner ends                *)
(* (check-pr.rs, checks/rust.rs).                                          *)
(***************************************************************************)
\* The repository real_main provisions for a task is moved into the closure
\* given to s.spawn and from there into execute: it lives until execute
\* returns or unwinds.
TaskRepoLive(t) == task[t].pc \in {"head", "spawn", "join"}

\* The repository execute provisions for a version is moved into the
\* closure given to JobHandle::spawn: it lives until the closure has
\* returned or unwound, which is before its result is sent.
JobRepoLive(h) == h.pc \in {"start", "group"}

\* The temporary directories on disk: <<t, 0>> is that of task t, and
\* <<t, v>> that of the job of its version number v.  A process that has
\* ended drops nothing more.
TempDirs ==
    {<<t, 0>> : t \in {u \in TaskIds : TaskRepoLive(u)}}
    \cup UNION {{<<t, v>> : v \in {w \in HandleIds(t) : JobRepoLive(Handle(t, w))}} :
                  t \in TaskIds}

\* temp_repo in the spawn loop of real_main: the directory of the
\* repository made for task t.
RepoDir(t) == <<t, 0>>

\* temp_repo in execute: the directory of the repository made for the
\* version number v of task t.
FreshRepoDir(t, v) == <<t, v>>

\* CargoDir with cargo run in the repository of the task.
CargoDir_TaskRepo(t, v) == RepoDir(t)

\* Cargo::new(ver, &repo_dir, path_ext), repo_dir being &fresh_repo.dir: the
\* directory the job of version number v runs cargo in.
CargoDir(t, v) == FreshRepoDir(t, v)

\* SingleCheck::new(ver, &repo_dir, ..) and Cargo::new in SingleCheck::run:
\* the directory ConcreteJob ki of the job runs cargo in is the repo_dir of
\* the job, whatever ki.
ItemDir(t, v, ki) == CargoDir(t, v)

\* The tasks and jobs that hold or use directory d: a task holds the
\* repository it was given, reads HEAD and the tree of the commit from it,
\* and a job holds the repository moved into its closure and runs cargo in
\* its directory.
Holders(d) ==
    {<<"task", t, 0>> : t \in {u \in TaskIds : TaskRepoLive(u) /\ RepoDir(u) = d}}
    \cup UNION {{<<"job", t, v>> :
                    v \in {w \in HandleIds(t) :
                             \/ JobRepoLive(Handle(t, w)) /\ FreshRepoDir(t, w) = d
                             \/ Handle(t, w).pc = "group" /\ CargoDir(t, w) = d}} :
                  t \in TaskIds}

(***************************************************************************)
(* exec_or_stderr and the subprocess it starts (job.rs).                   *)
(***************************************************************************)
\* The bytes the pipe of the error stream holds before a write to it
\* blocks: a subprocess may have one byte more than that to write.
PipeCapacity == MaxStderr - 1

\* The exit statuses of a subprocess.
ExitStatuses ==
    [kind : {"Exited"}, code : {0, 1}] \cup [kind : {"Signaled"}, code : {9}]

\* What exec_or_stderr can be given: a command that writes text to its
\* error stream and then ends with a status.  popen has started it with
\* its error stream on a pipe that the function holds the other end of.
ExecCalls ==
    [fn : {"exec_or_stderr"},
     text : {[i \in 1..n |-> i] : n \in 0..MaxStderr},
     status : ExitStatuses,
     child : {"running"}, written : {0}, pipe : {<<>>},
     pc : {"wait"}, out : {<<>>}]

\* The subprocess writes the next byte to its error stream: the write
\* blocks while the pipe is full.
ChildWrite ==
    /\ call.fn = "exec_or_stderr"
    /\ call.child = "running"
    /\ call.written < Len(call.text)
    /\ Len(call.pipe) < PipeCapacity
    /\ call' = [call EXCEPT
                  !.pipe = Append(@, call.text[call.written + 1]),
                  !.written = @ + 1]
    /\ UNCHANGED <<resolution, run, prev, commits, check_list, notes, mainPc,
                   spawnIdx, collectIdx, result, printed, exit, task,
                   global_pool, build_pool>>

\* The subprocess has written all it had to and ends.
ChildExit ==
    /\ call.fn = "exec_or_stderr"
    /\ call.child = "running"
    /\ call.written = Len(call.text)
    /\ call' = [call EXCEPT !.child = "exited"]
    /\ UNCHANGED <<resolution, run, prev, commits, check_list, notes, mainPc,
                   spawnIdx, collectIdx, result, printed, exit, task,
                   global_pool, build_pool>>

\* fail_msg: None for Exited(0), the status otherwise.
fail_msg(status) ==
    IF status.kind = "Exited" /\ status.code = 0
    THEN [some |-> FALSE, bad |-> status]
    ELSE [some |-> TRUE, bad |-> status]

\* popen.wait() returns once the subprocess has ended: with fail_msg None
\* exec_or_stderr returns Ok, the pipe unread.
ExecWait ==
    /\ call.fn = "exec_or_stderr"
    /\ call.pc = "wait"
    /\ call.child = "exited"
    /\ call' = IF fail_msg(call.status).some
               THEN [call EXCEPT !.pc = "read"]
               ELSE [call EXCEPT !.pc = "returned", !.out = [ok |-> TRUE]]
    /\ UNCHANGED <<resolution, run, prev, commits, check_list, notes, mainPc,
                   spawnIdx, collectIdx, result, printed, exit, task,
                   global_pool, build_pool>>

\* read_to_string on the pipe, whose writing end is closed: what is in the
\* pipe is read, and the Err is made of the status and of what was read.
ExecRead ==
    /\ call.fn = "exec_or_stderr"
    /\ call.pc = "read"
    /\ call' = [call EXCEPT
                  !.pc = "returned",
                  !.pipe = <<>>,
                  !.out = [ok |-> FALSE, bad |-> fail_msg(call.status).bad,
                           stderr |-> call.pipe]]
    /\ UNCHANGED <<resolution, run, prev, commits, check_list, notes, mainPc,
                   spawnIdx, collectIdx, result, printed, exit, task,
                   global_pool, build_pool>>

(***************************************************************************)
(* The specification.                                                      *)
(***************************************************************************)
Next ==
    \/ MainSpawn
    \/ MainSpawnFail
    \/ MainCollect
    \/ MainCollectPanic
    \/ MainExit
    \/ \E t \in TaskIds : ExecHeadOk(t)
    \/ \E t \in TaskIds : ExecHeadErr(t)
    \/ \E t \in TaskIds : ExecHeadPanic(t)
    \/ \E t \in TaskIds : ExecSpawnJob(t)
    \/ \E t \in TaskIds : ExecSpawnFail(t)
    \/ \E t \in TaskIds : ExecJoin(t)
    \/ \E t \in TaskIds : TaskSend(t)
    \/ \E t \in TaskIds : TaskSendFail(t)
    \/ \E t \in TaskIds : \E v \in HandleIds(t) : JobStart(t, v)
    \/ \E t \in TaskIds : \E v \in HandleIds(t) : JobStartErr(t, v)
    \/ \E t \in TaskIds : \E v \in HandleIds(t) : JobPanic(t, v)
    \/ \E t \in TaskIds : \E v \in HandleIds(t) : JobGroupFail(t, v)
    \/ \E t \in TaskIds : \E v \in HandleIds(t) : JobGroupNext(t, v)
    \/ \E t \in TaskIds : \E v \in HandleIds(t) : JobDone(t, v)
    \/ \E t \in TaskIds : \E v \in HandleIds(t) :
         \E ki \in Items(TaskCheck(t)) : ItemSkip(t, v, ki)
    \/ \E t \in TaskIds : \E v \in HandleIds(t) :
         \E ki \in Items(TaskCheck(t)) : ItemRun(t, v, ki)
    \/ \E t \in TaskIds : \E v \in HandleIds(t) :
         \E ki \in Items(TaskCheck(t)) : ItemVersionErr(t, v, ki)
    \/ \E t \in TaskIds : \E v \in HandleIds(t) :
         \E ki \in Items(TaskCheck(t)) : ItemFinish(t, v, ki)

\* One invocation of the program.
Spec == Init /\ [][Next]_vars

NextRerun ==
    \/ Next
    \/ Restart

\* Invocations of the program one after the other, on the same repository.
SpecRerun == InitRerun /\ [][NextRerun]_vars

\* real_main from its start to the end of its spawn loop, the tasks it
\* spawns not being run.
NextResolve ==
    \/ MainOpen
    \/ MainAncestors
    \/ MainPrWalk
    \/ MainRefuseMerges
    \/ MainPolicy
    \/ MainRebase
    \/ MainCherryPick
    \/ MainRebaseDone
    \/ MainOriginal
    \/ MainResolveFail
    \/ MainSpawn
    \/ MainSpawnFail
    \/ MainExit

SpecResolve == InitResolve /\ [][NextResolve]_vars

\* One invocation of the program on a machine with few CPUs.
SpecPool == InitPool /\ [][Next]_vars

\* A function of the program is about to be called on its own, in a run
\* that has a PR of one commit to check.
InitCalls ==
    /\ InitOf({Scenario(<<CommitNames[1]>>, <<RustCheck(<<>>, <<>>, <<Build>>)>>,
                        NoNote)})
    /\ global_pool = NTasks + 1
    /\ build_pool = num_threads
    /\ \/ call \in TempRepoCalls
       \/ call \in DecodeCalls
       \/ call \in ExecCalls

NextCalls ==
    \/ CallTempRepo
    \/ CallDecode
    \/ ChildWrite
    \/ ChildExit
    \/ ExecWait
    \/ ExecRead

SpecCalls == InitCalls /\ [][NextCalls]_vars

(***************************************************************************)
(* The claims.                                                             *)
(***************************************************************************)
Lines(seq) == {seq[n] : n \in DOMAIN seq}
Failed(h, ki) == h.item[ki] \in {"err", "verr"}
\* cargo was invoked for the job.
Invoked(h, ki) == h.item[ki] \in {"running", "ok", "err"}
\* The jobs spawned so far: <<t, v>> is the job of version number v of task t.
AllHandles == UNION {{<<t, v>> : v \in HandleIds(t)} : t \in TaskIds}

Collected == mainPc = "returned" /\ collectIdx = NTasks + 1

\* C2: once every task has reported, the result of real_main is a failure
\* if and only if some task reported a failure.
C2_FailureIffSomeTaskFailed ==
    Collected => (result.ok <=> \A t \in TaskIds : task[t].result.ok)

\* C2, the case: a failure was collected before a success.
C2_Witness ==
    /\ Collected
    /\ ~result.ok
    /\ \E t1, t2 \in TaskIds :
           t1 < t2 /\ ~task[t1].result.ok /\ task[t2].result.ok

\* C3, as stated: when the run has ended with every task collected, the
\* outcome of each task has been shown to the operator.
C3_EveryOutcomeEmitted ==
    (exit \in {"ok", "err"} /\ Collected) => \A t \in TaskIds : t \in printed

C6_EveryHandleJoined ==
    \A tv \in AllHandles :
        LET h == Handle(tv[1], tv[2]) IN h.dropped => h.joined

\* C7, as stated: in a run that follows a successful run on the same commits
\* with the same checks, cargo is invoked for no ConcreteJob.
C7_SecondRunRunsNothing ==
    (run >= 2 /\ prev = "ok") =>
        \A tv \in AllHandles :
            LET h == Handle(tv[1], tv[2]) IN
            \A ki \in DOMAIN h.item : ~Invoked(h, ki)

\* The lines of the note of the commit of a task.
Persisted(t) == Lines(ExistingNotes(notes[TaskCommit(t)]))

\* C8, as stated: when a run has ended in success, the markers each task
\* has earned are in the note of its commit.
C8_NewMarkersPersisted ==
    exit = "ok" =>
        \A t \in TaskIds :
            \A n \in task[t].result.notes :
                MyNote(TaskCheck(t), n[1], <<n[2], n[3]>>) \in Persisted(t)

\* The ConcreteJobs of a version whose descriptor is among the new notes,
\* in the job's collection or in what execute has taken from it.
Pushed(t, v) ==
    Handle(t, v).new_notes
      \cup {ki \in DOMAIN Handle(t, v).item :
              <<v, ki[1], ki[2]>> \in task[t].result.notes}

\* C9: a descriptor is among the new notes only if cargo was invoked for
\* its ConcreteJob and returned Ok.
C9_MarkerOnlyAfterSuccess ==
    \A tv \in AllHandles :
        \A ki \in Pushed(tv[1], tv[2]) : Handle(tv[1], tv[2]).item[ki] = "ok"

\* C9, the case: of one version, a job was skipped, a job failed after
\* another had succeeded, and only the one that succeeded is among the
\* new notes.
C9_Witness ==
    \E tv \in AllHandles :
        LET h == Handle(tv[1], tv[2]) IN
        /\ \E ki \in DOMAIN h.item : h.item[ki] = "skipped"
        /\ \E ki \in DOMAIN h.item : h.item[ki] = "err"
        /\ \E ki \in DOMAIN h.item : h.item[ki] = "ok" /\ h.new_notes = {ki}

\* C10: a ConcreteJob is skipped if and only if its descriptor is one of
\* the lines loaded from the note of the commit, and with no note nothing
\* is skipped.
C10_SkipIffMarkerLoaded ==
    \A tv \in AllHandles :
        LET t == tv[1]
            h == Handle(tv[1], tv[2])
        IN
        \A ki \in DOMAIN h.item :
            /\ h.item[ki] = "skipped" =>
                   MyNote(TaskCheck(t), tv[2], ki) \in Lines(task[t].existing)
            /\ h.item[ki] \in {"running", "ok", "err", "verr"} =>
                   MyNote(TaskCheck(t), tv[2], ki) \notin Lines(task[t].existing)
            /\ notes[TaskCommit(t)] = NoNote => h.item[ki] # "skipped"

\* C10, the case: the note holds the descriptor of the default build, a
\* line that only begins like it and an empty line; the default build was
\* skipped and the build with a feature was run.
C10_Witness ==
    \E tv \in AllHandles :
        LET t == tv[1]
            h == Handle(tv[1], tv[2])
        IN
        /\ LineNearMiss \in Lines(task[t].existing)
        /\ \E ki, kj \in DOMAIN h.item :
               /\ h.item[ki] = "skipped"
               /\ h.item[kj] = "ok"
               /\ TaskCheck(t).jobs[kj[1]] = Build

(***************************************************************************)
(* The resolution of the commit set (claims C11 to C16).                   *)
(***************************************************************************)
Resolving ==
    mainPc \in {"open", "ancestors", "prwalk", "policy", "rebase", "pick",
                "original"}

\* The errors of steps 0 to 3 real_main returns.
ResolutionErrors ==
    {"open", "master_ref", "master_commit", "tip_ref", "tip_commit",
     "worktree_new", "worktree_repo", "set_head", "checkout", "head",
     "find_commit", "cherrypick", "index", "write_tree", "find_tree",
     "commit", "new_head"}

Spawned == {t \in TaskIds : task[t].pc # "unspawned"}

C11_WitnessError ==
    /\ exit = "err"
    /\ result.kind = "tip_commit"
    /\ Spawned = {}

\* The commits of the PR: those for_each_commit finds from the tip.
OriginalCommits ==
    Range(for_each_commit(repo, repo.tip, FirstParents(repo, repo.master)))

IsMerge(c) == Len(repo.parents[c]) > 1

\* C12, as stated: when a commit of the PR has several parents and
\* --allow-merges is not given, real_main never gets past the refusal of
\* merges: it makes no worktree and spawns no task.
C12_MergesRefused ==
    (~allow_merges /\ \E c \in OriginalCommits : IsMerge(c)) =>
        /\ mainPc \notin {"rebase", "pick", "original", "spawn", "collect"}
        /\ Spawned = {}

\* C13, as stated: the temporary worktree of the rebase is made only when
\* the PR has pending commits and none of them is a merge.
C13_WorktreeOnlyWhenPending ==
    worktree # "none" => pr_linear_commits # <<>> /\ ~has_merges

\* The tree of the head commit number i of the rebase was made on.
TreeBelow(i) == IF i = 1 THEN repo.tree[master_id] ELSE picked[i - 1].tree

RebasedIds == {picked[i].id : i \in DOMAIN picked}

\* C14, as stated: the rebase adds at most as many commits as the PR has
\* pending ones, and a cherry-pick that left the tree as it was adds none.
C14_NoOpNotRecorded ==
    /\ Cardinality(pr_commit_set \cap RebasedIds) <= Len(pr_linear_commits)
    /\ \A i \in DOMAIN picked :
           picked[i].tree = TreeBelow(i) => picked[i].id \notin pr_commit_set

\* The commits the rebase recorded: the heads it made.
RecordedIds ==
    {picked[i].id : i \in {j \in DOMAIN picked : picked[j].id # picked[j].parents[1]}}

TaskCheckIdx(t) == ((t - 1) % Len(check_list)) + 1

TasksOf(c, k) == {t \in Spawned : TaskCommit(t) = c /\ TaskCheckIdx(t) = k}

C15_WitnessMerges ==
    /\ mainPc = "collect"
    /\ has_merges
    /\ needs_rebase
    /\ Range(commits) = {"p1", "p2", "s1"}

RECURSIVE Ancestors(_, _)
\* Commit c and the commits all its parent edges lead to.
Ancestors(r, c) ==
    {c} \cup UNION {Ancestors(r, r.parents[c][i]) : i \in DOMAIN r.parents[c]}

AfterPrWalk == mainPc \in {"policy", "rebase", "pick", "original", "spawn", "collect"}

\* C16, as stated: the pending commits are none exactly when the tip of the
\* PR is the tip of base or a commit parent edges lead to from it.
C16_EmptyIffAncestor ==
    AfterPrWalk =>
        (pr_linear_commits = <<>> <=> pr_id \in Ancestors(repo, master_id))

\* C16, amended: the pending commits are none exactly when the tip of the
\* PR is on the first-parent chain of base, its tip included.
C16_EmptyIffFirstParentAncestor ==
    AfterPrWalk =>
        /\ pr_linear_commits = <<>> <=> pr_id \in FirstParents(repo, master_id)
        /\ Range(pr_linear_commits) \cap FirstParents(repo, master_id) = {}

\* C16, the case: the tip of the PR was merged into base through the second
\* parent of a merge, and is still pending.
C16_Witness ==
    /\ AfterPrWalk
    /\ pr_id \in Ancestors(repo, master_id)
    /\ pr_id \notin FirstParents(repo, master_id)
    /\ pr_linear_commits = <<pr_id>>

(***************************************************************************)
(* The expansion of a check into jobs (claims C17 to C20).                 *)
(***************************************************************************)
\* C17, as stated: a job of a check with only-tip set is run on the tip of
\* the PR only.
C17_OnlyTipRunsOnTip ==
    \A tv \in AllHandles :
        \A ki \in Items(TaskCheck(tv[1])) :
            (TaskCheck(tv[1]).only_tip /\ Invoked(Handle(tv[1], tv[2]), ki))
                => TaskCommit(tv[1]) = pr_id

\* The feature combinations a check with the declared features is to be
\* built and tested with.
Combinations(features) ==
    IF features = <<>> THEN {<<>>}
    ELSE {<<>>, features} \cup {<<features[i]>> : i \in DOMAIN features}

\* The ext of a ConcreteJob.
ExtOf(check, ki) == Exts(check, ki[1])[ki[2]]

\* C18: the build and test jobs of a toolchain version are run with the
\* empty feature set alone when no feature is declared, and otherwise with
\* the empty set, the declared list and each declared feature: one
\* ConcreteJob for each, which makes 4 of them for two declared features.
C18_FeatureMatrix ==
    \A tv \in AllHandles :
        LET check == TaskCheck(tv[1])
            h == Handle(tv[1], tv[2])
        IN  \A k \in DOMAIN check.jobs :
                check.jobs[k].kind \in {"build", "test"} =>
                    /\ {ExtOf(check, ki) : ki \in GroupItems(check, k)}
                         = Combinations(check.features)
                    /\ GroupItems(check, k) \subseteq DOMAIN h.item
                    /\ check.features = <<>> =>
                         Cardinality(GroupItems(check, k)) = 1
                    /\ Len(check.features) = 2 =>
                         Cardinality(GroupItems(check, k)) = 4

\* C18, the case: a check declaring two features was built with its four
\* combinations.
C18_Witness ==
    \E tv \in AllHandles :
        LET check == TaskCheck(tv[1])
            h == Handle(tv[1], tv[2])
        IN  /\ check.features = <<"a", "b">>
            /\ check.jobs = <<Build>>
            /\ h.f = "ok"
            /\ {ExtOf(check, ki) : ki \in {i \in DOMAIN h.item : h.item[i] = "ok"}}
                 = {<<>>, <<"a", "b">>, <<"a">>, <<"b">>}

\* The targets of the manifest a job kind is run on.
Targets(kind) == IF kind = "examples" THEN Toml.example ELSE Toml.bin

\* C19: the examples and fuzz jobs of a toolchain version are one
\* ConcreteJob for each example, respectively fuzz target, of the manifest,
\* named after the target alone, whatever features the check declares.
C19_OneJobPerTarget ==
    \A tv \in AllHandles :
        LET check == TaskCheck(tv[1])
            h == Handle(tv[1], tv[2])
        IN  \A k \in DOMAIN check.jobs :
                check.jobs[k].kind \in {"examples", "fuzz"} =>
                    LET targets == Targets(check.jobs[k].kind) IN
                    /\ GroupItems(check, k) \subseteq DOMAIN h.item
                    /\ Cardinality(GroupItems(check, k)) = Len(targets)
                    /\ \A n \in DOMAIN targets :
                           Cardinality({ki \in GroupItems(check, k) :
                               ExtOf(check, ki) = <<targets[n]>>}) = 1

\* C19, the case: a check declaring a feature ran its example and its two
\* fuzz targets once each.
C19_Witness ==
    \E tv \in AllHandles :
        LET check == TaskCheck(tv[1])
            h == Handle(tv[1], tv[2])
        IN  /\ check.features # <<>>
            /\ check.jobs = <<Examples, Fuzz(default_fuzz_iters)>>
            /\ h.f = "ok"
            /\ \A ki \in DOMAIN h.item : h.item[ki] = "ok"
            /\ Cardinality(DOMAIN h.item) = 3

\* The ConcreteJobs of one toolchain version of a check: kind and ext.
JobsOf(check) ==
    {<<check.jobs[ki[1]].kind, ExtOf(check, ki)>> : ki \in Items(check)}

\* C20: for a PR of three commits in a line ahead of base and the one check
\* with jobs build and test, no features and no version, the commits to
\* check are at most six, each gets one build and one test without
\* features on the toolchain stable alone, and the ConcreteJobs of the run
\* are at most 12.
C20_AtMostTwelveJobs ==
    (/\ repo \in ThreeAhead
     /\ check_list = <<RustCheck(<<>>, <<>>, <<Build, Test>>)>>
     /\ mainPc \in {"spawn", "collect"}) =>
        /\ Len(commits) <= 6
        /\ \A t \in TaskIds :
               /\ Versions(TaskCheck(t)) = <<"stable">>
               /\ Cardinality(Items(TaskCheck(t))) = 2
               /\ JobsOf(TaskCheck(t)) = {<<"build", <<>>>>, <<"test", <<>>>>}
        /\ Len(commits) * NJobsOfList(check_list) <= 12

\* C20, the case: the three commits were rebased, and the run has spawned
\* the tasks of six commits, which have 12 ConcreteJobs.
C20_Witness ==
    /\ repo \in ThreeAhead
    /\ check_list = <<RustCheck(<<>>, <<>>, <<Build, Test>>)>>
    /\ mainPc = "collect"
    /\ Len(picked) = 3
    /\ Spawned = TaskIds
    /\ Len(commits) * NJobsOfList(check_list) = 12

(***************************************************************************)
(* Provisioning, pools and temporary directories (claims C21 to C26).      *)
(***************************************************************************)
\* C21, as stated: a repository that cannot be provisioned costs its own
\* task only: when real_main returns, every other (commit, check) pair was
\* spawned and its outcome collected, and the process is not aborted.
C21_ProvisionFailureIsLocal ==
    /\ mainPc = "returned" =>
           \A t \in TaskIds :
               \/ result.kind = "provision" /\ result.at = t
               \/ task[t].pc # "unspawned" /\ t < collectIdx
    /\ exit # "abort"


\* The cargo invocations under way, over every job of every task.
RunningSubTasks ==
    UNION {UNION {{<<t, v, ki>> : ki \in RunningItems(Handle(t, v))} :
                      v \in HandleIds(t)} : t \in TaskIds}

\* The units of work under way: the outer tasks and the inner sub-tasks.
RunningUnits == Cardinality(RunningTasks) + Cardinality(RunningSubTasks)

LargerPool == IF global_pool >= build_pool THEN global_pool ELSE build_pool

C30_NoDeadlock == exit = "running" => ENABLED Next


AllDirs ==
    {RepoDir(t) : t \in TaskIds}
    \cup UNION {{FreshRepoDir(t, v) : v \in HandleIds(t)} : t \in TaskIds}

\* C24: a provisioned directory is held and used by one task or job only,
\* and only while it is on disk.
C24_ExclusiveOwnership ==
    \A d \in AllDirs :
        /\ Cardinality(Holders(d)) <= 1
        /\ Holders(d) # {} => d \in TempDirs

\* A task holds its repository while the jobs of two versions run cargo,
\* each in its own.
C24_Witness ==
    \E t \in TaskIds :
        /\ Holders(RepoDir(t)) = {<<"task", t, 0>>}
        /\ Len(task[t].handles) = 2
        /\ \A v \in HandleIds(t) :
               /\ Handle(t, v).pc = "group"
               /\ Holders(FreshRepoDir(t, v)) = {<<"job", t, v>>}


(***************************************************************************)
(* Copying a commit into a new repository (claims C25 and C26).            *)
(***************************************************************************)
\* The objects of the tree of a commit of the source, the tree included.
TreeObjects(commit) ==
    LET tree == SourceOdb[commit].data IN
    {tree} \cup Range(WalkEntries(SourceOdb, SourceOdb[tree].data))

\* The call of temp_repo met a fault in an object it had to copy.
CopyFailed ==
    /\ call.fn = "temp_repo"
    /\ call.done
    /\ call.fault.at \in TreeObjects(call.commit)

\* C25, as stated: when an object of the tree cannot be read or written, or
\* does not hash to its id, temp_repo returns to its caller an error that
\* names that object.
C25_CopyErrorNamesObject ==
    CopyFailed => /\ call.out.kind = "err"
                  /\ call.fault.at \in call.out.named


\* C26: after temp_repo has succeeded, the directory of the new repository
\* holds the files of the tree of the commit, path for path with the same
\* contents, and its database holds the tree of the commit and the objects
\* the tree reaches, and nothing else.
C26_RoundTrip ==
    (call.fn = "temp_repo" /\ call.done /\ call.out.kind = "ok") =>
        LET tree == SourceOdb[call.commit].data IN
        /\ call.out.workdir =
               {<<f[1], SourceOdb[f[2]].data>> : f \in Files(SourceOdb, tree)}
        /\ DOMAIN call.out.dst = TreeObjects(call.commit)
        /\ \A id \in DOMAIN call.out.dst :
               SameObject(call.out.dst[id], SourceOdb[id])

\* temp_repo has succeeded for a commit with a directory and two files of
\* the same contents, in a source that holds objects of other commits.
C26_Witness ==
    /\ call.fn = "temp_repo"
    /\ call.done
    /\ call.out.kind = "ok"
    /\ call.commit = "q3"
    /\ call.out.workdir =
           {<<(<<"d", "x">>), "B">>, <<(<<"f1">>), "C">>, <<(<<"f2">>), "C">>}
    /\ DOMAIN SourceOdb \ DOMAIN call.out.dst # {}


(***************************************************************************)
(* Decoding a check descriptor (claim C29).                                *)
(***************************************************************************)
\* The descriptor with the value of field name, when it is not a list,
\* put in a list of one element.
AsList(d, name) ==
    IF name \in DOMAIN d /\ d[name].t # "seq"
    THEN [d EXCEPT ![name] = Json("seq", <<@>>)]
    ELSE d

SameResult(a, b) == a.ok = b.ok /\ (a.ok => a.v = b.v)

\* The values of an admissible kind for one job: the name of a job that
\* has no field, or a fuzz job with or without its iteration count.
AdmissibleJob(j) ==
    \/ j.t = "str" /\ j.v \in {"build", "test", "examples"}
    \/ j.t = "map" /\ DOMAIN j.v = {"fuzz"}

\* The list of one fuzz job that has no iteration count.
OnlyFuzzNoIters(j) ==
    /\ j.t = "seq"
    /\ Len(j.v) = 1
    /\ j.v[1].t = "map"
    /\ DOMAIN j.v[1].v = {"fuzz"}
    /\ DOMAIN j.v[1].v["fuzz"].v = {}

Decoded == call.fn = "decode" /\ call.done

\* C29, as stated: version and jobs decode alike as a single value and as
\* the list of that value, a single value of an admissible kind being
\* accepted; a fuzz job without iters gets 100000; a descriptor with a
\* field RustCheck does not have is rejected.
C29_Decoding ==
    Decoded =>
        LET d == Descriptor(call.in) IN
        /\ SameResult(call.out, decode(AsList(AsList(d, "version"), "jobs")))
        /\ (/\ DOMAIN d \subseteq KnownFields
            /\ "jobs" \in DOMAIN d
            /\ AdmissibleJob(d["jobs"])) => call.out.ok
        /\ ("jobs" \in DOMAIN d /\ OnlyFuzzNoIters(d["jobs"]) /\ call.out.ok)
               => call.out.v.check.jobs = <<Fuzz(100000)>>
        /\ ~(DOMAIN d \subseteq KnownFields) => ~call.out.ok


(***************************************************************************)
(* The histories of base and of the PR (claims C27 and C28).               *)
(***************************************************************************)

\* The first parent of a commit, when it has one.
HasParent(c) == repo.parents[c] # <<>>
FirstParent(c) == repo.parents[c][1]

\* C27: once step 1 is over, parent_commits is the first-parent chain of
\* base: it holds the tip of base, with every commit it holds the first
\* parent of that commit, down to a root, and no commit that is not the
\* first parent of one it holds - so none that base reaches through a
\* second or later parent only.
C27_FirstParentChain ==
    master_id # "none" =>
        /\ master_id \in parent_commits
        /\ \A c \in parent_commits : HasParent(c) => FirstParent(c) \in parent_commits
        /\ \E c \in parent_commits : ~HasParent(c)
        /\ \A c \in parent_commits \ {master_id} :
               \E d \in parent_commits : HasParent(d) /\ FirstParent(d) = c

\* Base is a merge: the commit it merged is an ancestor of base that the
\* AncestorSet leaves out.
C27_Witness ==
    /\ master_id # "none"
    /\ mainPc = "prwalk"
    /\ Len(repo.parents[master_id]) = 2
    /\ repo.parents[master_id][2] \in Ancestors(repo, master_id) \ parent_commits
    /\ Cardinality(parent_commits) = 2

RECURSIVE ReachAvoiding(_, _, _)
\* The commits parent edges lead to from c without going through a commit
\* of avoid.
ReachAvoiding(r, c, avoid) ==
    IF c \in avoid THEN {}
    ELSE {c} \cup UNION {ReachAvoiding(r, r.parents[c][i], avoid) :
                           i \in DOMAIN r.parents[c]}

\* C28, as stated: for_each_commit calls the action once on every commit
\* that parent edges lead to from the tip of the PR without going through
\* the AncestorSet, and on no commit of the AncestorSet; n is the number of
\* these commits, and the indices are different numbers of 0..n-1.
C28_ForEachCommit ==
    pr_id # "none" =>
        LET pr_map == for_each_commit(repo, pr_id, parent_commits) IN
        /\ Range(pr_map) = ReachAvoiding(repo, pr_id, parent_commits)
        /\ Range(pr_map) \cap parent_commits = {}
        /\ Len(pr_map) = Cardinality(Range(pr_map))

(***************************************************************************)
(* The joining loop of RustCheck::execute (claim C31).                     *)
(***************************************************************************)
\* execute has gone through its joining loop and has its result.
JoinedAll(t) ==
    /\ task[t].pc \in {"send", "done"}
    /\ task[t].handles # <<>>
    /\ task[t].joinIdx = Len(task[t].handles) + 1

\* C31: once execute has joined the jobs of all the versions of a check,
\* the markers of every version whose job reported Ok are in the value
\* execute returns, also when the job of another version reported an Err.
C31_SiblingMarkersReturned ==
    \A t \in TaskIds :
        JoinedAll(t) =>
            \A v \in HandleIds(t) :
                LET h == Handle(t, v) IN
                ~IsErr(h.res) =>
                    \A ki \in DOMAIN h.item :
                        h.item[ki] = "ok" =>
                            <<v, ki[1], ki[2]>> \in task[t].result.notes

(***************************************************************************)
(* The rebase of step 3 (claims C32 and C33).                              *)
(***************************************************************************)
\* C32: the commits of the PR are cherry-picked oldest first, each on the
\* HEAD the cherry-pick before it made and the first on the tip of master:
\* the commit made from commit number i of the PR has one parent, the
\* commit made from commit number i - 1 (the tip of master for the first),
\* and the author and the committer of the commit it was made from; when
\* step 3 is through, every commit of the PR has been cherry-picked.
C32_ReplayedInOrder ==
    /\ \A i \in DOMAIN picked :
          /\ picked[i].from = pr_linear_commits[i]
          /\ i > 1 => repo.parents[picked[i].from][1] = picked[i - 1].from
          /\ picked[i].parents =
                 <<IF i = 1 THEN repo.master ELSE picked[i - 1].id>>
          /\ picked[i].author = Signature("author", pr_linear_commits[i])
          /\ picked[i].committer = Signature("committer", pr_linear_commits[i])
    /\ (mainPc \in {"original", "spawn"} /\ worktree = "pruned") =>
          Len(picked) = Len(pr_linear_commits)

\* C32, the case: a PR of three commits that forks below the tip of master
\* has been rebased.
C32_Witness ==
    /\ mainPc = "original"
    /\ worktree = "pruned"
    /\ Len(picked) = 3
    /\ picked[3].parents = <<picked[2].id>>
    /\ picked[1].parents = <<repo.master>>
    /\ repo.parents[picked[1].from] # <<repo.master>>

\* C33: when the cherry-pick of a commit of the PR fails, real_main returns
\* the error and the run ends with it: the commits after it are not
\* cherry-picked, step 4 and step 5 are not reached, so that no task is
\* spawned, and the temporary worktree has been dropped.
C33_ConflictAborts ==
    result.kind = "cherrypick" =>
        /\ ~result.ok
        /\ mainPc = "returned"
        /\ exit \in {"running", "err"}
        /\ pickIdx <= Len(pr_linear_commits)
        /\ Len(picked) = pickIdx - 1
        /\ commits = <<>>
        /\ task = <<>>
        /\ Spawned = {}
        /\ worktree = "pruned"

\* C33, the case: the second commit of a PR failed to cherry-pick after the
\* first had been committed in the worktree, and the run is over.
C33_Witness ==
    /\ result.kind = "cherrypick"
    /\ exit = "err"
    /\ Len(picked) = 1
    /\ pickIdx = 2
    /\ Len(pr_linear_commits) >= 2

(***************************************************************************)
(* HEAD of a provisioned repository (claim C34).                           *)
(***************************************************************************)
\* C34: in the repository temp_repo has made for a commit, HEAD resolves
\* to that commit and the commit can be looked up, so that execute, which
\* resolves HEAD and calls temp_repo on this repository with the id it
\* got, reaches its jobs.
C34_HeadIsTheCommit ==
    (call.fn = "temp_repo" /\ call.done /\ call.out.kind = "ok") =>
        /\ head(call.out.refs) = call.commit
        /\ call.commit \in DOMAIN call.out.dst
        /\ temp_repo(call.out.dst, call.commit, NoFault, "ok").kind = "ok"

(***************************************************************************)
(* The ConcreteJobs of one toolchain version (claims C35 and C36).         *)
(***************************************************************************)
\* C35: the ConcreteJobs of one toolchain version of a task have distinct
\* canonical descriptors, whatever features the check declares.
C35_DistinctDescriptors ==
    \A tv \in AllHandles :
        LET h == Handle(tv[1], tv[2]) IN
        \A ki, kj \in DOMAIN h.item :
            ki # kj =>
                MyNote(TaskCheck(tv[1]), tv[2], ki)
                    # MyNote(TaskCheck(tv[1]), tv[2], kj)

\* The ConcreteJobs whose cargo subprocess is running: <<t, v, ki>>.
RunningJobs ==
    UNION {{<<tv[1], tv[2], ki>> :
               ki \in {kj \in DOMAIN Handle(tv[1], tv[2]).item :
                          Handle(tv[1], tv[2]).item[kj] = "running"}} :
             tv \in AllHandles}

\* C36: two ConcreteJobs whose subprocesses run at the same time run in
\* different directories.
C36_DistinctWorkingDirs ==
    \A a, b \in RunningJobs :
        a # b => ItemDir(a[1], a[2], a[3]) # ItemDir(b[1], b[2], b[3])

(***************************************************************************)
(* Running a subprocess (claim C37).                                       *)
(***************************************************************************)
\* C37: exec_or_stderr returns for a subprocess that ends once what it
\* writes is read, however much it writes to its error stream: while the
\* call has not returned a step can be taken; and it returns Ok when and
\* only when the exit status is 0, an Err having all the text the
\* subprocess wrote to its error stream.
C37_ExecReturns ==
    call.fn = "exec_or_stderr" =>
        /\ call.pc # "returned" => ENABLED NextCalls
        /\ call.pc = "returned" =>
              /\ call.out.ok <=> call.status = [kind |-> "Exited", code |-> 0]
              /\ ~call.out.ok => call.out.stderr = call.text

====
